---- MODULE Spec2Model ----
(***************************************************************************)
(* Watcher bots: edge-triggered sale notification with persisted state.    *)
(*                                                                         *)
(* Three scripts poll a shop and keep one state file per target:           *)
(*   shop   - bots/shop-sale-watcher/src/bot.py    (main, run_once_for_target) *)
(*   canyon - bots/canyon-product-watcher/src/bot.py (main, run_target)    *)
(*   mnstry - mnstry_watch.py                      (main under a retry loop) *)
(* A behaviour runs one of the scripts (variable bot) for a bounded number *)
(* of invocations.  Every invocation is a fresh process: the state files   *)
(* are the only memory that survives it.  The HTTP responses and the       *)
(* notifier outcomes are the inputs, drawn per call.                       *)
(*                                                                         *)
(* The functions of the scripts that are studied on their own (load_state, *)
(* state_file_for_target, collect_deals, rank_deals, calc_discount,        *)
(* parse_price, the decision of a poll) are applied to inputs              *)
(* drawn from bounded sets in specifications of their own; the variable    *)
(* call holds the call under study.                                        *)
(*                                                                         *)
(* tracker.py is a fourth script: it polls price sources for a price under *)
(* PRICE_LIMIT and a shop page for links not seen before, and keeps        *)
(* state.json (seen, errors).  Its runs use bot = "tracker", targets (the  *)
(* price sources), ti, file, inv, pc, outbox and poll as the watchers do,  *)
(* and tracker_state for the state dict its main holds in memory.          *)
(*                                                                         *)
(* bots/budget/budget_bot.py is a fifth script: each invocation fetches    *)
(* the Telegram updates behind its cursor and books the expenses of its    *)
(* chat.  Its runs use bot = "budget", file (state.json, expenses.jsonl),  *)
(* inv, outbox, call (the getUpdates request made) and updates.            *)
(***************************************************************************)
EXTENDS Integers, Sequences, FiniteSets, TLC

(***************************************************************************)
(* Bounds of the model.                                                    *)
(***************************************************************************)
MaxInvocations == 3

(***************************************************************************)
(* Program constants.                                                      *)
(***************************************************************************)
MAX_ATTEMPTS == 3
NOTIFY_SALE_END == FALSE
MNSTRY_ATTEMPTS == 3

\* Python's None for an optional price; prices are in cents.
None == -1
\* 0.01 currency units, the tolerance of canyon's sale test, in cents.
CENT == 1

(***************************************************************************)
(* Target ids are strings, modelled as sequences of characters.            *)
(***************************************************************************)
\* The characters of the ids are letters, "_", "-" and the characters below;
\* of these only the ones below fall outside [A-Za-z0-9_-].
UnsafeChars == {" ", "/", "."}
Whitespace == {" "}

RECURSIVE lstrip(_)
lstrip(s) == IF s # <<>> /\ Head(s) \in Whitespace THEN lstrip(Tail(s)) ELSE s

RECURSIVE rstrip(_)
rstrip(s) ==
    IF s # <<>> /\ s[Len(s)] \in Whitespace
    THEN rstrip(SubSeq(s, 1, Len(s) - 1))
    ELSE s

\* str.strip()
strip(s) == rstrip(lstrip(s))

\* re.sub(r"[^A-Za-z0-9_-]+", "_", s): every maximal run of unsafe
\* characters becomes one underscore.
RECURSIVE sub_unsafe(_, _)
sub_unsafe(s, in_run) ==
    IF s = <<>> THEN <<>>
    ELSE IF Head(s) \notin UnsafeChars
         THEN <<Head(s)>> \o sub_unsafe(Tail(s), FALSE)
         ELSE IF in_run
              THEN sub_unsafe(Tail(s), TRUE)
              ELSE <<"_">> \o sub_unsafe(Tail(s), TRUE)

sanitize_target_id(target_id) == sub_unsafe(strip(target_id), FALSE)

state_file_for_target(target_id) == sanitize_target_id(target_id)

UNKNOWN == <<"u", "n", "k", "n", "o", "w", "n">>

\* mnstry_watch keeps one fixed state file.
STATE_FILE == <<"m", "n", "s", "t", "r", "y">>

(***************************************************************************)
(* Target configuration (targets.json): id, url and, for canyon, the       *)
(* expected currency.  An empty string is a missing field.                 *)
(***************************************************************************)
TargetA == [id |-> <<"a">>, url |-> "u", currency_expected |-> "CHF"]
TargetB == [id |-> <<"b">>, url |-> "u", currency_expected |-> "CHF"]
TargetNoId == [id |-> <<>>, url |-> "u", currency_expected |-> "CHF"]
TargetNoUrl == [id |-> <<"b">>, url |-> "", currency_expected |-> "CHF"]

\* The configured target lists the model runs: the targets of one list have
\* distinct state files.
TargetLists ==
    { <<TargetA>>, <<TargetNoId, TargetA>>, <<TargetA, TargetNoUrl>> }

\* mnstry_watch has no target list: it watches one shop.
MnstryTargets == << [id |-> STATE_FILE, url |-> "u", currency_expected |-> ""] >>

StateKeys == {<<"a">>, <<"b">>, UNKNOWN, STATE_FILE}

(***************************************************************************)
(* State files.  kind: the file is missing, is not parsable JSON, or holds *)
(* a JSON object with the keys in keys (the value of an absent key is a    *)
(* placeholder).  A signature is a tuple of numbers, <<>> for "".          *)
(***************************************************************************)
AllKeys == {"sale_active", "last_price", "last_original_price", "last_signature"}

Blank(kind) ==
    [kind |-> kind, keys |-> {}, sale_active |-> FALSE, last_price |-> None,
     last_original_price |-> None, last_signature |-> <<>>]

NoFile == Blank("missing")
CorruptFile == Blank("corrupt")
EmptyDict == Blank("dict")

\* The state files an invocation may find that no run of the script wrote.
InitFiles == {NoFile, CorruptFile, EmptyDict}

(***************************************************************************)
(* HTTP responses.  exc: the GET raised requests.RequestException.         *)
(* body: "empty" (a falsy document: {} or ""), "malformed" (a document on  *)
(* which extraction raises), or "doc" with the prices it carries: price    *)
(* and original (compare-at) price, None when absent.                      *)
(***************************************************************************)
Prices == {None, 1000, 1001, 1500}

Bodies ==
    { [kind |-> "empty", price |-> None, original |-> None],
      [kind |-> "malformed", price |-> None, original |-> None] }
    \cup [kind : {"doc"}, price : {None, 1000}, original : Prices]

\* A response that is no usable document carries a sale all the same: the
\* fetcher has to reject it by its status, content type, parse or block phrase.
SaleBody == [kind |-> "doc", price |-> 1000, original |-> 1500]

Response(exc, status, json_ct, parses, blocked, body) ==
    [exc |-> exc, status |-> status, json_ct |-> json_ct, parses |-> parses,
     blocked |-> blocked, body |-> body]

Responses ==
    { Response(TRUE, 0, FALSE, FALSE, FALSE, SaleBody),
      Response(FALSE, 503, TRUE, TRUE, FALSE, SaleBody),
      Response(FALSE, 200, FALSE, TRUE, FALSE, SaleBody),
      Response(FALSE, 200, TRUE, FALSE, FALSE, SaleBody) }
    \cup { Response(FALSE, 200, TRUE, TRUE, b, body) : b \in BOOLEAN, body \in Bodies }

(***************************************************************************)
(* Notifier messages and summary lines.                                    *)
(***************************************************************************)
SaleMsgs == {"sale_1", "sale_2"}
Msgs == SaleMsgs \cup {"sale_end", "error"}

\* Outcome of one telegram_send call.
SendOutcomes == {"ok", "false", "raise"}

(***************************************************************************)
(* State.                                                                  *)
(***************************************************************************)
VARIABLES
    bot,        \* the script this behaviour runs: "shop", "canyon", "mnstry"
    targets,    \* targets.json: the ordered target list
    file,       \* the state files, by state-file key
    inv,        \* invocations started so far
    pc,         \* "idle" (no process), "run", "failed", "done", "crashed"
    DRY_RUN,    \* the DRY_RUN environment flag of the running process
    ti,         \* index of the target being processed
    attempt,    \* the retry loop's attempt counter
    stdout,     \* lines printed by the running process: <<target index, kind>>
    outbox,     \* messages the notifier delivered for the running process
    tries,      \* per target: executions of the poll, how many raised, GETs made
    poll,       \* the local variables of the last poll
    \* history of the notifier and of the observed condition, per target
    delivered,  \* sale messages delivered since the condition was last seen inactive
    resent,     \* a sale message was delivered that was in delivered already
    clean,      \* no state file at the start, and so far only completed normal-mode
                \* polls whose sends all succeeded
    hist,       \* while clean: per completed poll, the condition observed and
                \* whether the sale notification was delivered
    failStreak, \* the target's latest polls were fetch failures, the first of
                \* them (or an earlier one) with the persisted state active
    owed,       \* "armed": the target's last completed poll observed the
                \* condition inactive; "owed": since then a normal-mode poll
                \* observed it active and a send of its notification failed,
                \* and no later poll delivered all its messages; else "no"
    \* a function studied on its own
    call,       \* the call: function, arguments, whether it returned, result
    \* tracker.py
    tracker_state, \* the state dict main loaded and passes to the checks
    notified,   \* history: per URL, the "new offer" messages delivered so far
    alerted,    \* history: per price source, its poll in the invocation before
                \* delivered the deal alert
    warned,     \* history: per source name, the "not reachable" warnings
                \* delivered so far (counted up to 2)
    \* budget_bot.py
    updates     \* the updates Telegram holds for the bot, in the order of
                \* their update_id

vars == <<bot, targets, file, inv, pc, DRY_RUN, ti, attempt, stdout, outbox,
          tries, poll, delivered, resent, clean, hist, failStreak, owed, call,
          tracker_state, notified, alerted, warned, updates>>

proc == <<DRY_RUN, ti, attempt, stdout, outbox, tries, poll>>
history == <<delivered, resent, clean, hist, failStreak, owed>>

\* The variables the three watcher scripts do not touch.
elsewhere == <<call, tracker_state, notified, alerted, warned, updates>>

\* The variables of tracker.py alone.
tracker == <<tracker_state, notified, alerted, warned, updates>>

\* The links tracker.py can find on the shop page.
Urls == {"u1", "u2"}

\* tracker.py is not running and has not run.
TrackerIdle ==
    /\ tracker_state = <<>>
    /\ notified = [u \in Urls |-> 0]
    /\ alerted = <<>>
    /\ warned = <<>>
    /\ updates = <<>>

\* No function is under study.
NoCall == [fn |-> "none", args |-> <<>>, returned |-> FALSE, result |-> <<>>]

Range(s) == {s[i] : i \in 1..Len(s)}

\* The content of a state file; a path no target uses is a missing file.
ReadFile(path) == IF path \in DOMAIN file THEN file[path] ELSE NoFile

(***************************************************************************)
(* shop-sale-watcher                                                       *)
(***************************************************************************)

\* load_state: a missing or unreadable file gives the default; the keys a
\* JSON object lacks are filled in.
ShopLoadState(f) ==
    IF f.kind # "dict"
    THEN [EmptyDict EXCEPT !.keys = {"sale_active", "last_signature"}]
    ELSE [f EXCEPT !.keys = @ \cup {"sale_active", "last_signature"}]

\* save_state writes the dict as it is.
ShopSaveState(state) == state

\* http_get_json: None (FALSE) unless the GET returned 200 with a JSON
\* content type and a body that parses.
ShopHttpGetJson(resp) ==
    IF resp.exc THEN [ok |-> FALSE, gets |-> 1]
    ELSE IF resp.status # 200 THEN [ok |-> FALSE, gets |-> 1]
    ELSE IF ~resp.json_ct THEN [ok |-> FALSE, gets |-> 1]
    ELSE IF ~resp.parses THEN [ok |-> FALSE, gets |-> 1]
    ELSE [ok |-> TRUE, gets |-> 1]

\* collect_deals on the catalog of the document: the variant is a deal when
\* both prices are present and compare_at_price > price.
ShopDeals(body) ==
    IF body.price # None /\ body.original # None /\ body.original > body.price
    THEN 1 ELSE 0

\* signature of the top deal
ShopSignature(body) ==
    IF ShopDeals(body) > 0 THEN <<body.original, body.price>> ELSE <<>>

\* bool(state.get("sale_active", False))
WasActive(state) == "sale_active" \in state.keys /\ state.sale_active

\* Faulty variant: notifies on every poll that sees a sale, not only on the edge.
ShopNotifications_Level(was_active, sale_now) ==
    IF sale_now THEN <<"sale_1", "sale_2">> ELSE <<>>

\* Faulty variant: the "sale ended" message is sent with the default
\* configuration too.
ShopNotifications_SaleEnd(was_active, sale_now) ==
    (IF (~was_active) /\ sale_now THEN <<"sale_1", "sale_2">> ELSE <<>>)
    \o (IF was_active /\ (~sale_now) THEN <<"sale_end">> ELSE <<>>)

\* The notifications of a poll: two messages on False -> True, the
\* "sale ended" message on True -> False when NOTIFY_SALE_END is set.
ShopNotifications(was_active, sale_now) ==
    (IF (~was_active) /\ sale_now THEN <<"sale_1", "sale_2">> ELSE <<>>)
    \o (IF was_active /\ (~sale_now) /\ NOTIFY_SALE_END THEN <<"sale_end">> ELSE <<>>)

ShopSummary(notifications, dry_run) ==
    IF notifications = <<>> THEN "NO_CHANGE"
    ELSE IF dry_run THEN "WOULD_NOTIFY" ELSE "NOTIFY"

\* Faulty variant: the new signature is stored, the new sale_active is not.
ShopNextState_KeepsActive(state, sale_now, signature) ==
    [state EXCEPT !.last_signature = signature]

\* run_once_for_target, lines 316-318: the state to persist.
ShopNextState(state, sale_now, signature) ==
    [state EXCEPT !.sale_active = sale_now, !.last_signature = signature]

\* Faulty variant: a poll without data resets the condition to inactive.
ShopNoData_Reset(state) == [state EXCEPT !.sale_active = FALSE]

\* run_once_for_target, lines 265-267: without data the loaded state is
\* returned unchanged.
ShopNoData(state) == state

NoPoll ==
    [t |-> 0, raised |-> FALSE, fetch |-> "none", transient |-> FALSE, gets |-> 0,
     completed |-> FALSE, was_active |-> FALSE, sale_now |-> FALSE,
     notifications |-> <<>>, sent |-> <<>>, send_failed |-> FALSE,
     saved |-> FALSE, after_fail |-> FALSE, summary |-> "none", blocked |-> FALSE]

\* run_once_for_target: the returned (state, notifications, summary) with the
\* locals of the run; raised when the call raised.
run_once_for_target(target, f, resp, dry_run) ==
    LET target_id == strip(target.id)
        state == ShopLoadState(f)
        got == ShopHttpGetJson(resp)
        data_ok == got.ok /\ resp.body.kind # "empty"
        sale_now == ShopDeals(resp.body) > 0
        was_active == WasActive(state)
        notifications == ShopNotifications(was_active, sale_now)
    IN  IF target_id = <<>> \/ target.url = ""
        THEN [NoPoll EXCEPT !.raised = TRUE] @@ [state |-> f]
        ELSE IF ~data_ok
        THEN [NoPoll EXCEPT !.fetch = "failed", !.transient = resp.exc,
                            !.gets = got.gets, !.was_active = was_active,
                            !.summary = "NO_CHANGE"] @@ [state |-> ShopNoData(state)]
        ELSE IF resp.body.kind = "malformed"
        THEN [NoPoll EXCEPT !.raised = TRUE, !.fetch = "ok", !.gets = got.gets]
             @@ [state |-> state]
        ELSE [NoPoll EXCEPT !.fetch = "ok", !.gets = got.gets, !.completed = TRUE,
                            !.was_active = was_active, !.sale_now = sale_now,
                            !.notifications = notifications,
                            !.summary = ShopSummary(notifications, dry_run)]
             @@ [state |-> ShopNextState(state, sale_now, ShopSignature(resp.body))]

\* main, line 334: the id used for the state file and the log lines.
ShopTargetId(target) == IF strip(target.id) = <<>> THEN UNKNOWN ELSE strip(target.id)

\* Faulty variant: the state is saved in DRY_RUN too.
ShopPersists_InDryRun(raised, dry_run) == ~raised

\* main, lines 345-358: the state is saved when the attempt neither raised
\* nor ran in DRY_RUN.
ShopPersists(raised, dry_run) == (~raised) /\ (~dry_run)

\* Faulty variant: the last attempt is taken to be one later.
ShopLastAttempt_OffByOne(a) == a = MAX_ATTEMPTS

\* main, lines 360-367: an exception is re-raised on the last attempt.
ShopLastAttempt(a) == a = MAX_ATTEMPTS - 1

(***************************************************************************)
(* The target loop and the history shared by the scripts.                  *)
(***************************************************************************)
\* `continue` / the end of the loop body: on to the next target, or done.
NextTarget ==
    IF ti >= Len(targets)
    THEN pc' = "done" /\ UNCHANGED <<ti, attempt>>
    ELSE pc' = "run" /\ ti' = ti + 1 /\ attempt' = 0

PollOf(r, t, sent, send_failed, raised, saved) ==
    [x \in DOMAIN NoPoll |->
        CASE x = "t" -> t
          [] x = "sent" -> sent
          [] x = "send_failed" -> send_failed
          [] x = "raised" -> raised
          [] x = "saved" -> saved
          [] x = "after_fail" -> failStreak[t]
          [] OTHER -> r[x]]

SaleSent(p) == {m \in Range(p.sent) : m \in SaleMsgs}

\* The locals of a run with a note of what it fetched: the document of a
\* run that made a GET had a block phrase in its body.
Polled(r, resp) == [r EXCEPT !.blocked = r.gets > 0 /\ (~resp.exc) /\ resp.blocked]

Record(p, dry_run) ==
    LET t == p.t IN
    /\ delivered' = [delivered EXCEPT ![t] =
            IF p.completed /\ ~p.sale_now THEN {} ELSE @ \cup SaleSent(p)]
    /\ resent' = (resent \/ (SaleSent(p) \cap delivered[t]) # {})
    /\ clean' = [clean EXCEPT ![t] =
            @ /\ (~dry_run) /\ p.completed /\ ~p.send_failed]
    /\ hist' = [hist EXCEPT ![t] =
            IF clean[t] /\ (~dry_run) /\ p.completed /\ ~p.send_failed
            THEN Append(@, [obs |-> p.sale_now, notified |-> SaleSent(p) # {}])
            ELSE <<>>]
    /\ failStreak' = [failStreak EXCEPT ![t] =
            p.fetch = "failed" /\ (@ \/ p.was_active)]
    /\ owed' = [owed EXCEPT ![t] =
            IF ~p.completed THEN @
            ELSE IF ~p.sale_now THEN "armed"
            ELSE IF p.send_failed /\ @ \in {"armed", "owed"} THEN "owed"
            ELSE IF p.notifications # <<>> /\ ~dry_run THEN "no"
            ELSE IF @ = "owed" THEN "owed"
            ELSE "no"]

\* The count of a target's polls in this process: executions, how many
\* raised, and the GET requests made.
Tried(c, p) ==
    [runs |-> c.runs + 1,
     raised |-> c.raised + (IF p.raised THEN 1 ELSE 0),
     gets |-> c.gets + p.gets]

Lines(t, kind, n) == [i \in 1..n |-> <<t, kind>>]

\* One iteration of main's retry loop for the current target: the poll, the
\* summary line, the sends (the first k succeed, the next one raises) and
\* the save; an exception goes to the retry or, on the last attempt, out.
ShopAttempt ==
    /\ bot = "shop" /\ pc = "run"
    /\ \E resp \in Responses :
       \E state_file \in {state_file_for_target(ShopTargetId(targets[ti]))} :
       \E r \in {Polled(run_once_for_target(targets[ti], file[state_file], resp,
                                             DRY_RUN), resp)} :
       \E n \in {IF r.raised \/ DRY_RUN THEN 0 ELSE Len(r.notifications)} :
       \E k \in 0..n :
       \E p \in {PollOf(r, ti, SubSeq(r.notifications, 1, k), k < n,
                        r.raised \/ k < n, ShopPersists(r.raised \/ k < n, DRY_RUN))} :
            /\ poll' = p
            /\ stdout' = IF r.raised THEN stdout
                         ELSE Append(stdout, <<ti, r.summary>>)
                              \o (IF DRY_RUN
                                  THEN Lines(ti, "DRY_RUN_MSG", Len(r.notifications))
                                  ELSE <<>>)
            /\ outbox' = outbox \o [i \in 1..k |-> <<ti, p.sent[i]>>]
            /\ file' = IF p.saved
                       THEN [file EXCEPT ![state_file] = ShopSaveState(r.state)]
                       ELSE file
            /\ tries' = [tries EXCEPT ![ti] = Tried(@, p)]
            /\ IF ~p.raised THEN NextTarget
               ELSE IF ShopLastAttempt(attempt)
                    THEN pc' = "failed" /\ UNCHANGED <<ti, attempt>>
                    ELSE attempt' = attempt + 1 /\ UNCHANGED <<pc, ti>>
            /\ Record(p, DRY_RUN)
    /\ UNCHANGED <<bot, targets, inv, DRY_RUN>>
    /\ UNCHANGED elsewhere

\* Faulty variant: the error ends the batch.
ShopContinue_Abort == pc' = "done" /\ UNCHANGED <<ti, attempt>>

\* main, line 377: `continue` after the ERROR line.
ShopContinue == NextTarget

\* main's outer except: the ERROR line, a warning to the notifier outside
\* DRY_RUN (its failure is swallowed), and on to the next target.
ShopReportError ==
    /\ bot = "shop" /\ pc = "failed"
    /\ stdout' = Append(stdout, <<ti, "ERROR">>)
    /\ \E o \in {"ok", "raise"} :
        outbox' = IF (~DRY_RUN) /\ o = "ok"
                  THEN Append(outbox, <<ti, "error">>) ELSE outbox
    /\ ShopContinue
    /\ UNCHANGED <<bot, targets, file, inv, DRY_RUN, tries, poll>>
    /\ UNCHANGED history
    /\ UNCHANGED elsewhere

(***************************************************************************)
(* canyon-product-watcher                                                  *)
(***************************************************************************)
CanyonDefaultState == [EmptyDict EXCEPT !.keys = AllKeys]

\* load_state: DEFAULT_STATE updated with the known keys of a JSON object.
CanyonLoadState(f) ==
    IF f.kind # "dict" THEN CanyonDefaultState
    ELSE [kind |-> "dict", keys |-> AllKeys,
          sale_active |-> IF "sale_active" \in f.keys THEN f.sale_active ELSE FALSE,
          last_price |-> IF "last_price" \in f.keys THEN f.last_price ELSE None,
          last_original_price |->
              IF "last_original_price" \in f.keys THEN f.last_original_price ELSE None,
          last_signature |->
              IF "last_signature" \in f.keys THEN f.last_signature ELSE <<>>]

\* fetch_html: None (FALSE) on a request error, a status other than 200 or
\* a page with a block phrase.
CanyonFetchHtml(resp) ==
    IF resp.exc THEN [ok |-> FALSE, gets |-> 1]
    ELSE IF resp.status # 200 THEN [ok |-> FALSE, gets |-> 1]
    ELSE IF resp.blocked THEN [ok |-> FALSE, gets |-> 1]
    ELSE [ok |-> TRUE, gets |-> 1]

\* sale_active_now: an original price more than 0.01 above the current one.
CanyonSaleActive(current_price, original_price) ==
    original_price # None /\ original_price > current_price + CENT

\* build_signature
CanyonSignature(current_price, original_price, sale_active) ==
    <<IF sale_active THEN 1 ELSE 0, current_price, original_price>>

\* Faulty variant: a sale is also reported when the stored price is unknown.
CanyonShouldNotify_OnPrice(prev_state, sale_active_now) ==
    sale_active_now /\ ((~WasActive(prev_state)) \/ prev_state.last_price = None)

\* should_notify
CanyonShouldNotify(prev_state, sale_active_now) ==
    (~WasActive(prev_state)) /\ sale_active_now

\* run_target, lines 305-323: in normal mode the next state is saved after
\* every poll that extracted a price, whatever the send returned.
CanyonPersists(should_notify, dry_run, send) == ~dry_run

CanyonSummary(should_notify, dry_run, send) ==
    IF ~should_notify THEN "NO_CHANGE"
    ELSE IF dry_run THEN "WOULD_NOTIFY"
    ELSE IF send = "ok" THEN "NOTIFY" ELSE "NO_CHANGE"

\* run_target up to the decision: the locals and the next state.
run_target(target, f, resp) ==
    LET target_id == strip(target.id)
        prev_state == CanyonLoadState(f)
        got == CanyonFetchHtml(resp)
        html_ok == got.ok /\ resp.body.kind # "empty"
        current_price == resp.body.price
        original_price == resp.body.original
        sale_active_now == CanyonSaleActive(current_price, original_price)
        should_notify == CanyonShouldNotify(prev_state, sale_active_now)
    IN  IF target_id = <<>> \/ target.url = "" \/ target.currency_expected = ""
        THEN [NoPoll EXCEPT !.summary = "NO_CHANGE"] @@ [state |-> f]
        ELSE IF ~html_ok
        THEN [NoPoll EXCEPT !.fetch = "failed", !.transient = resp.exc,
                            !.gets = got.gets, !.was_active = WasActive(prev_state),
                            !.summary = "NO_CHANGE"] @@ [state |-> f]
        ELSE IF resp.body.kind = "malformed"
        THEN [NoPoll EXCEPT !.raised = TRUE, !.fetch = "ok", !.gets = got.gets,
                            !.summary = "NO_CHANGE"] @@ [state |-> f]
        ELSE IF current_price = None
        THEN [NoPoll EXCEPT !.fetch = "ok", !.gets = got.gets,
                            !.was_active = WasActive(prev_state),
                            !.summary = "NO_CHANGE"] @@ [state |-> f]
        ELSE [NoPoll EXCEPT !.fetch = "ok", !.gets = got.gets, !.completed = TRUE,
                            !.was_active = WasActive(prev_state),
                            !.sale_now = sale_active_now,
                            !.notifications =
                                IF should_notify THEN <<"sale_1">> ELSE <<>>]
             @@ [state |->
                    [kind |-> "dict", keys |-> AllKeys,
                     sale_active |-> sale_active_now,
                     last_price |-> current_price,
                     last_original_price |-> original_price,
                     last_signature |->
                        CanyonSignature(current_price, original_price, sale_active_now)]]

\* One iteration of main's loop: run_target for the current target, with
\* the send and the save, and main's except that logs NO_CHANGE.
CanyonRunTarget ==
    /\ bot = "canyon" /\ pc = "run"
    /\ \E resp \in Responses :
       \E state_path \in {state_file_for_target(strip(targets[ti].id))} :
       \E r \in {Polled(run_target(targets[ti], ReadFile(state_path), resp), resp)} :
       \E should_notify \in {r.notifications # <<>>} :
       \E send \in (IF should_notify /\ ~DRY_RUN THEN SendOutcomes ELSE {"ok"}) :
       \E p \in {PollOf([r EXCEPT !.summary =
                            IF r.completed
                            THEN CanyonSummary(should_notify, DRY_RUN, send) ELSE @],
                        ti,
                        IF should_notify /\ (~DRY_RUN) /\ send = "ok"
                        THEN r.notifications ELSE <<>>,
                        should_notify /\ (~DRY_RUN) /\ send # "ok",
                        r.raised,
                        r.completed /\ CanyonPersists(should_notify, DRY_RUN, send))} :
            /\ poll' = p
            /\ stdout' = Append(stdout, <<ti, p.summary>>)
            /\ outbox' = outbox \o [i \in 1..Len(p.sent) |-> <<ti, p.sent[i]>>]
            /\ file' = IF p.saved
                       THEN [file EXCEPT ![state_path] = r.state]
                       ELSE file
            /\ tries' = [tries EXCEPT ![ti] = Tried(@, p)]
            /\ NextTarget
            /\ Record(p, DRY_RUN)
    /\ UNCHANGED <<bot, targets, inv, DRY_RUN>>
    /\ UNCHANGED elsewhere

(***************************************************************************)
(* mnstry_watch                                                            *)
(***************************************************************************)
\* load_state: the default for a missing file, else json.load of the file,
\* which raises on a file that is not JSON.
MnstryLoadState(f) ==
    IF f.kind = "missing"
    THEN [raised |-> FALSE,
          state |-> [EmptyDict EXCEPT !.keys = {"sale_active", "last_signature"}]]
    ELSE IF f.kind = "corrupt" THEN [raised |-> TRUE, state |-> f]
    ELSE [raised |-> FALSE, state |-> f]

\* http_get_json: the GET's exception propagates; None (ok FALSE) on a
\* status other than 200 or a body that does not parse.
MnstryHttpGetJson(resp) ==
    IF resp.exc THEN [raised |-> TRUE, ok |-> FALSE, gets |-> 1]
    ELSE IF resp.status # 200 THEN [raised |-> FALSE, ok |-> FALSE, gets |-> 1]
    ELSE IF ~resp.parses THEN [raised |-> FALSE, ok |-> FALSE, gets |-> 1]
    ELSE [raised |-> FALSE, ok |-> TRUE, gets |-> 1]

\* the retry loop under __main__ re-raises on the last attempt
MnstryLastAttempt(a) == a = MNSTRY_ATTEMPTS - 1

\* main up to the sends.
mnstry_main(f, resp) ==
    LET loaded == MnstryLoadState(f)
        state == loaded.state
        got == MnstryHttpGetJson(resp)
        data_ok == got.ok /\ resp.body.kind # "empty"
        sale_now == ShopDeals(resp.body) > 0
        was_active == WasActive(state)
    IN  IF loaded.raised
        THEN [NoPoll EXCEPT !.raised = TRUE] @@ [state |-> f]
        ELSE IF got.raised
        THEN [NoPoll EXCEPT !.raised = TRUE, !.fetch = "failed", !.transient = TRUE,
                            !.gets = got.gets, !.was_active = was_active]
             @@ [state |-> f]
        ELSE IF ~data_ok
        THEN [NoPoll EXCEPT !.fetch = "failed", !.gets = got.gets,
                            !.was_active = was_active] @@ [state |-> f]
        ELSE IF resp.body.kind = "malformed"
        THEN [NoPoll EXCEPT !.raised = TRUE, !.fetch = "ok", !.gets = got.gets]
             @@ [state |-> f]
        ELSE [NoPoll EXCEPT !.fetch = "ok", !.gets = got.gets, !.completed = TRUE,
                            !.was_active = was_active, !.sale_now = sale_now,
                            !.notifications =
                                IF (~was_active) /\ sale_now
                                THEN <<"sale_1", "sale_2">> ELSE <<>>]
             @@ [state |-> [state EXCEPT
                    !.keys = @ \cup {"sale_active", "last_signature"},
                    !.sale_active = sale_now,
                    !.last_signature = ShopSignature(resp.body)]]

\* One iteration of the retry loop under __main__: main, with its sends
\* (the first k succeed, the next one raises) and its save.
MnstryAttempt ==
    /\ bot = "mnstry" /\ pc = "run"
    /\ \E resp \in Responses :
       \E r \in {Polled(mnstry_main(file[STATE_FILE], resp), resp)} :
       \E n \in {IF r.raised THEN 0 ELSE Len(r.notifications)} :
       \E k \in 0..n :
       \E p \in {PollOf(r, ti, SubSeq(r.notifications, 1, k), k < n,
                        r.raised \/ k < n, r.completed /\ k = n)} :
            /\ poll' = p
            /\ outbox' = outbox \o [i \in 1..k |-> <<ti, p.sent[i]>>]
            /\ file' = IF p.saved
                       THEN [file EXCEPT ![STATE_FILE] = r.state]
                       ELSE file
            /\ tries' = [tries EXCEPT ![ti] = Tried(@, p)]
            /\ IF ~p.raised THEN pc' = "done" /\ UNCHANGED attempt
               ELSE IF MnstryLastAttempt(attempt)
                    THEN pc' = "crashed" /\ UNCHANGED attempt
                    ELSE attempt' = attempt + 1 /\ UNCHANGED pc
            /\ Record(p, DRY_RUN)
    /\ UNCHANGED <<bot, targets, inv, DRY_RUN, ti, stdout>>
    /\ UNCHANGED elsewhere

(***************************************************************************)
(* Processes.                                                              *)
(***************************************************************************)
NoTries == [t \in 1..2 |-> [runs |-> 0, raised |-> 0, gets |-> 0]]

\* The scheduler starts the script as a fresh process.
StartInvocation ==
    /\ bot \in {"shop", "canyon", "mnstry"}
    /\ pc = "idle" /\ inv < MaxInvocations
    /\ inv' = inv + 1
    /\ pc' = "run"
    /\ DRY_RUN' \in (IF bot = "mnstry" THEN {FALSE} ELSE BOOLEAN)
    /\ ti' = 1 /\ attempt' = 0
    /\ stdout' = <<>> /\ outbox' = <<>> /\ tries' = NoTries /\ poll' = NoPoll
    /\ UNCHANGED <<bot, targets, file>>
    /\ UNCHANGED history
    /\ UNCHANGED elsewhere

\* The process ends: its memory is gone, the files stay.
Exit ==
    /\ bot \in {"shop", "canyon", "mnstry"}
    /\ pc \in {"done", "crashed"}
    /\ pc' = "idle"
    /\ DRY_RUN' = FALSE /\ ti' = 1 /\ attempt' = 0
    /\ stdout' = <<>> /\ outbox' = <<>> /\ tries' = NoTries /\ poll' = NoPoll
    /\ UNCHANGED <<bot, targets, file, inv>>
    /\ UNCHANGED history
    /\ UNCHANGED elsewhere

\* The state file a target of the running script uses.
KeyOf(b, target) ==
    IF b = "mnstry" THEN STATE_FILE
    ELSE IF b = "shop" THEN state_file_for_target(ShopTargetId(target))
    ELSE state_file_for_target(strip(target.id))

\* A state file as a run of the script leaves it with the sale active.
ActiveFile(b) ==
    IF b = "canyon"
    THEN [kind |-> "dict", keys |-> AllKeys, sale_active |-> TRUE, last_price |-> 1000,
          last_original_price |-> 1500,
          last_signature |-> CanyonSignature(1000, 1500, TRUE)]
    ELSE [kind |-> "dict", keys |-> {"sale_active", "last_signature"},
          sale_active |-> TRUE, last_price |-> None, last_original_price |-> None,
          last_signature |-> ShopSignature(SaleBody)]

\* No process is running; the files of the valid targets are drawn from
\* files, every other file is missing; inv0 invocations are behind.
Start(bots, lists, files, inv0) ==
    /\ bot \in bots
    /\ targets \in (IF bot = "mnstry" THEN {MnstryTargets} ELSE lists)
    /\ file \in [StateKeys -> files \cup {NoFile}]
    /\ \A key \in StateKeys :
        IF \E t \in 1..Len(targets) :
                /\ key = KeyOf(bot, targets[t])
                /\ strip(targets[t].id) # <<>>
                /\ targets[t].url # ""
        THEN file[key] \in files
        ELSE file[key] = NoFile
    /\ inv = inv0 /\ pc = "idle"
    /\ DRY_RUN = FALSE /\ ti = 1 /\ attempt = 0
    /\ stdout = <<>> /\ outbox = <<>> /\ tries = NoTries /\ poll = NoPoll
    /\ delivered = [t \in 1..2 |-> {}]
    /\ resent = FALSE
    /\ clean = [t \in 1..2 |->
                    t <= Len(targets) /\ ReadFile(KeyOf(bot, targets[t])) = NoFile]
    /\ hist = [t \in 1..2 |-> <<>>]
    /\ failStreak = [t \in 1..2 |-> FALSE]
    /\ owed = [t \in 1..2 |-> "no"]

Init ==
    /\ Start({"shop", "canyon", "mnstry"}, TargetLists, InitFiles, 0)
    /\ call = NoCall
    /\ TrackerIdle

Next ==
    \/ StartInvocation
    \/ ShopAttempt
    \/ ShopReportError
    \/ CanyonRunTarget
    \/ MnstryAttempt
    \/ Exit

Spec == Init /\ [][Next]_vars

(***************************************************************************)
(* The batch runners on two valid targets: the last invocation of a run,   *)
(* from any state files the earlier invocations can have left.             *)
(***************************************************************************)
BatchLists == { <<TargetA, TargetB>> }

InitBatch ==
    /\ \E b \in {"shop", "canyon"} :
        Start({b}, BatchLists, InitFiles \cup {ActiveFile(b)}, MaxInvocations - 1)
    /\ call = NoCall
    /\ TrackerIdle

NextBatch ==
    \/ StartInvocation
    \/ ShopAttempt
    \/ ShopReportError
    \/ CanyonRunTarget
    \/ Exit

SpecBatch == InitBatch /\ [][NextBatch]_vars

(***************************************************************************)
(* Vocabulary of the properties.                                           *)
(***************************************************************************)
\* The state file holds sale_active = true.
PersistedActive(f) == f.kind = "dict" /\ "sale_active" \in f.keys /\ f.sale_active

\* The state file of target t of the running script.
FileOf(t) == ReadFile(KeyOf(bot, targets[t]))

\* This step is a poll of the current target ti.
PollStep == pc = "run" /\ tries'[ti].runs = tries[ti].runs + 1

\* The running process will not poll target t again.
PollsOver(t) ==
    \/ pc \in {"done", "crashed"}
    \/ pc = "failed" /\ ti >= t
    \/ pc = "run" /\ ti > t

\* The running process has left target t behind.
Finished(t) == pc = "done" \/ (pc \in {"run", "failed"} /\ ti > t)

\* The lines of a kind printed for target t.
LinesIn(out, t, kinds) ==
    Cardinality({i \in 1..Len(out) : out[i][1] = t /\ out[i][2] \in kinds})

LineCount(t, kinds) == LinesIn(stdout, t, kinds)

SummaryKinds == {"NO_CHANGE", "NOTIFY", "WOULD_NOTIFY", "ERROR"}

(***************************************************************************)
(* C1.  In shop and canyon, with NOTIFY_SALE_END off, a poll whose fetch   *)
(* and extraction succeed produces a sale notification exactly when the    *)
(* state file it loaded did not hold sale_active = true and the condition  *)
(* it observed is true.                                                    *)
(***************************************************************************)
C1_NotifyIffRisingEdge ==
    [][ (PollStep /\ bot \in {"shop", "canyon"} /\ poll'.completed)
        => ( (poll'.notifications # <<>>)
             <=> ((~PersistedActive(FileOf(ti))) /\ poll'.sale_now) ) ]_vars

\* A shop poll on an inactive state that observed a sale and produced the
\* notification.
C1_Witness ==
    /\ bot = "shop" /\ poll.completed
    /\ ~poll.was_active /\ poll.sale_now /\ poll.notifications # <<>>

(***************************************************************************)
(* C2.  One target, normal mode, notifier always succeeding, no state file *)
(* at the start, every poll completing: the polls that notify are exactly  *)
(* the polls that observe the condition active after not observing it      *)
(* active in the poll before (or after no poll).                           *)
(***************************************************************************)
C2_OncePerEdge ==
    \A t \in 1..Len(targets) :
        clean[t] =>
            \A i \in 1..Len(hist[t]) :
                hist[t][i].notified
                    <=> (hist[t][i].obs /\ (i = 1 \/ ~hist[t][i - 1].obs))

\* Inactive, Active, Active: notified in the second poll only.
C2_Witness ==
    \E t \in 1..Len(targets) :
        /\ clean[t]
        /\ hist[t] = << [obs |-> FALSE, notified |-> FALSE],
                        [obs |-> TRUE, notified |-> TRUE],
                        [obs |-> TRUE, notified |-> FALSE] >>

(***************************************************************************)
(* C3.  No sale message is delivered twice for one Inactive -> Active      *)
(* transition, in the same invocation or a later one, also when a send     *)
(* raises part-way and the retry loop runs the target again.               *)
(***************************************************************************)
C3_NoMessageTwice == ~resent

(***************************************************************************)
(* C4.  A poll whose fetch fails leaves every state file as it was: not    *)
(* created, not rewritten, not changed.                                    *)
(***************************************************************************)
C4_FailedFetchLeavesFile ==
    [][ (PollStep /\ poll'.fetch = "failed") => file' = file ]_vars

(***************************************************************************)
(* C5.  From a persisted active state, fetch failures followed by a        *)
(* completed poll that observes the condition active send no sale          *)
(* notification, neither in the failed polls nor in the completed one.     *)
(***************************************************************************)
C5_NoArtificialEdge ==
    /\ (poll.fetch = "failed" /\ (poll.was_active \/ poll.after_fail))
        => (poll.notifications = <<>> /\ SaleSent(poll) = {})
    /\ (poll.completed /\ poll.after_fail /\ poll.sale_now)
        => (poll.notifications = <<>> /\ SaleSent(poll) = {})

\* A completed poll that observed the sale right after a failed fetch on
\* an active state.
C5_Witness ==
    /\ poll.completed /\ poll.after_fail /\ poll.sale_now
    /\ poll.was_active /\ ~DRY_RUN

(***************************************************************************)
(* C6.  Normal mode: once the process is through with a target whose last  *)
(* poll fetched a document and found an Inactive -> Active transition,     *)
(* the state file holds sale_active = true, whatever the sends did.        *)
(***************************************************************************)
C6_PersistedDespiteDelivery ==
    ( /\ pc # "idle" /\ ~DRY_RUN /\ poll.t # 0
      /\ poll.completed /\ ~poll.was_active /\ poll.sale_now
      /\ PollsOver(poll.t) )
    => PersistedActive(FileOf(poll.t))

(***************************************************************************)
(* C7.  A DRY_RUN process delivers no message and writes no state file,    *)
(* on any path, and never prints NOTIFY.                                   *)
(***************************************************************************)
C7_DryRunNoEffects ==
    [][ DRY_RUN => ( /\ file' = file
                     /\ outbox' = outbox
                     /\ \A i \in 1..Len(stdout') : stdout'[i][2] # "NOTIFY" ) ]_vars

\* A dry run that found a transition and one that went through the error path.
C7_Witness ==
    /\ DRY_RUN /\ pc = "done"
    /\ \E i \in 1..Len(stdout) : stdout[i][2] \in {"WOULD_NOTIFY"}
    /\ \E i \in 1..Len(stdout) : stdout[i][2] \in {"ERROR"}

(***************************************************************************)
(* C8.  In a batch, a target whose every attempt raised does not stop the  *)
(* later targets: each target of the list is polled, and the polls of one  *)
(* target leave the state file and the notification history of the other   *)
(* targets alone.                                                          *)
(***************************************************************************)
C8_Isolation ==
    [][ /\ pc' = "done"
            => \A t \in 1..Len(targets) :
                tries'[t].runs >= 1 /\ LinesIn(stdout', t, SummaryKinds) >= 1
        /\ \A u \in 1..Len(targets) :
            (pc \in {"run", "failed"} /\ u # ti)
            => ( /\ file'[KeyOf(bot, targets[u])] = file[KeyOf(bot, targets[u])]
                 /\ delivered'[u] = delivered[u]
                 /\ tries'[u] = tries[u]
                 /\ LinesIn(stdout', u, SummaryKinds) = LinesIn(stdout, u, SummaryKinds) )
      ]_vars

\* The first target failed on all attempts, with a message delivered on the
\* way, and the second was polled and notified.
C8_Witness ==
    /\ bot = "shop" /\ pc = "done"
    /\ tries[1].raised = MAX_ATTEMPTS
    /\ \E i \in 1..Len(outbox) : outbox[i] = <<1, "sale_1">>
    /\ \E i \in 1..Len(outbox) : outbox[i] = <<2, "sale_2">>
    /\ \E i \in 1..Len(stdout) : stdout[i] = <<2, "NOTIFY">>

(***************************************************************************)
(* C9.  shop's retry loop: at most MAX_ATTEMPTS polls of a target in one   *)
(* invocation, none after the first that does not raise, and exactly one   *)
(* ERROR line for a target when all MAX_ATTEMPTS raised (none otherwise).  *)
(***************************************************************************)
C9_BoundedRetry ==
    \A t \in 1..Len(targets) :
        /\ tries[t].runs <= MAX_ATTEMPTS
        /\ tries[t].runs - tries[t].raised \in {0, 1}
        /\ (tries[t].runs - tries[t].raised = 1) => PollsOver(t)
        /\ (bot = "shop" /\ Finished(t))
            => LineCount(t, {"ERROR"}) = (IF tries[t].raised = MAX_ATTEMPTS THEN 1 ELSE 0)

\* All three attempts of the first target raised, the ERROR line is out and
\* the batch went on to the second target.
C9_Witness ==
    /\ bot = "shop" /\ pc = "run" /\ ti = 2
    /\ tries[1].runs = MAX_ATTEMPTS /\ tries[1].raised = MAX_ATTEMPTS
    /\ LineCount(1, {"ERROR"}) = 1

(***************************************************************************)
(* C10.  A transient fetch error is retried: a process gives up on a       *)
(* target after a GET that raised only when it has made MAX_ATTEMPTS GETs  *)
(* for it.                                                                 *)
(***************************************************************************)
C10_TransientFetchRetried ==
    ( /\ pc # "idle" /\ poll.t # 0
      /\ poll.fetch = "failed" /\ poll.transient
      /\ PollsOver(poll.t) )
    => tries[poll.t].gets = MAX_ATTEMPTS

(***************************************************************************)
(* C11.  An invocation of a batch runner (shop, canyon) prints exactly one *)
(* summary line (NO_CHANGE, NOTIFY, WOULD_NOTIFY or ERROR) for each target *)
(* it is through with, whatever the fetches, the sends and the retries did.*)
(***************************************************************************)
C11_OneLinePerTarget ==
    \A t \in 1..Len(targets) :
        (bot \in {"shop", "canyon"} /\ Finished(t))
            => LineCount(t, SummaryKinds) = 1

(***************************************************************************)
(* load_state on its own: each script's load_state applied to a state file *)
(* of any content.  A file holds no JSON ("corrupt"), a JSON value that is *)
(* no object (null, a number, a list), or an object; mistyped names the    *)
(* keys of the object whose value has another type than the script writes. *)
(* For sale_active the field of the record is the truth value Python gives *)
(* the stored value (bool("yes") is True, bool(0) is False).               *)
(***************************************************************************)
\* No watcher process runs and none will be looked at.
WatchersIdle == Start({"shop"}, {<<TargetA>>}, {NoFile}, 0)

Scripts == {"shop", "canyon", "mnstry", "tracker"}

NonObjectKinds == {"null", "number", "list"}

\* tracker.py keeps state.json: seen, the URLs notified, and errors, the
\* sources reported as unreachable.
TrackerBlank(kind) == [kind |-> kind, keys |-> {}, seen |-> <<>>, errors |-> <<>>]

TrackerKeys == {"seen", "errors"}

\* tracker.load_state: the default for a missing file, else json.load of
\* the file, which raises on a file that is not JSON.
TrackerLoadState(f) ==
    IF f.kind = "missing"
    THEN [raised |-> FALSE, state |-> [TrackerBlank("dict") EXCEPT !.keys = TrackerKeys]]
    ELSE IF f.kind = "corrupt" THEN [raised |-> TRUE, state |-> f]
    ELSE [raised |-> FALSE, state |-> f]

\* load_state of a script.
load_state(script, f) ==
    CASE script = "shop" -> [raised |-> FALSE, state |-> ShopLoadState(f)]
      [] script = "canyon" -> [raised |-> FALSE, state |-> CanyonLoadState(f)]
      [] script = "mnstry" -> MnstryLoadState(f)
      [] script = "tracker" -> TrackerLoadState(f)

\* The keys a script writes to its state file.
StoredKeys(script) ==
    CASE script = "canyon" -> AllKeys
      [] script = "tracker" -> TrackerKeys
      [] OTHER -> {"sale_active", "last_signature"}

\* The contents a script may find in its state file.
StoredFiles(script) ==
    IF script = "tracker"
    THEN { TrackerBlank(k) : k \in {"missing", "corrupt"} \cup NonObjectKinds }
         \cup { x \in { [TrackerBlank("dict") EXCEPT !.keys = ks, !.seen = sn] :
                            ks \in SUBSET TrackerKeys, sn \in {<<>>, <<"url">>} } :
                    x.seen # <<>> => "seen" \in x.keys }
    ELSE { Blank(k) : k \in {"missing", "corrupt"} \cup NonObjectKinds }
         \cup { x \in { [Blank("dict") EXCEPT !.keys = ks, !.sale_active = a] :
                            ks \in SUBSET StoredKeys(script), a \in BOOLEAN } :
                    x.sale_active => "sale_active" \in x.keys }

InitLoadState ==
    /\ WatchersIdle
    /\ TrackerIdle
    /\ \E script \in Scripts : \E f \in StoredFiles(script) : \E m \in SUBSET f.keys :
        call = [fn |-> "load_state",
                args |-> [script |-> script, f |-> f, mistyped |-> m],
                returned |-> FALSE, result |-> <<>>]

LoadState ==
    /\ call.fn = "load_state" /\ ~call.returned
    /\ call' = [call EXCEPT !.returned = TRUE,
                            !.result = load_state(call.args.script, call.args.f)]
    /\ UNCHANGED <<bot, targets, file, inv, pc>>
    /\ UNCHANGED proc
    /\ UNCHANGED history
    /\ UNCHANGED tracker

SpecLoadState == InitLoadState /\ [][LoadState]_vars

\* The field of the state the transition logic of a script reads first.
ConditionKey(script) == IF script = "tracker" THEN "seen" ELSE "sale_active"

\* The stored state is not what the script writes: no object, or the
\* condition field missing or of another type.
Malformed(a) ==
    \/ a.f.kind # "dict"
    \/ ConditionKey(a.script) \notin a.f.keys
    \/ ConditionKey(a.script) \in a.mistyped

\* The transition logic reads the loaded state as the safe default: the
\* read does not fail and gives "inactive", for tracker an empty seen list.
ReadsDefault(a, state) ==
    /\ state.kind = "dict"
    /\ ConditionKey(a.script) \in state.keys
    /\ IF a.script = "tracker"
       THEN "seen" \notin a.mistyped /\ state.seen = <<>>
       ELSE ~WasActive(state)

(***************************************************************************)
(* C12.  load_state never raises, and a state file that is missing, not    *)
(* JSON, no JSON object, or an object whose condition field is missing or  *)
(* wrongly typed is read by the transition logic as the safe default:      *)
(* condition inactive, seen-set empty.                                     *)
(***************************************************************************)
C12_LoadStateSafe ==
    (call.fn = "load_state" /\ call.returned)
    => ( /\ ~call.result.raised
         /\ Malformed(call.args) => ReadsDefault(call.args, call.result.state) )

(***************************************************************************)
(* C13.  A poll that fetched a document with a bot-blocking phrase in its  *)
(* body does not use it: the fetch counts as failed, the poll produces no  *)
(* notification and no state file changes between active and inactive,     *)
(* whatever prices the document carries.                                   *)
(***************************************************************************)
C13_BlockedNeverUsed ==
    [][ (PollStep /\ poll'.blocked)
        => ( /\ poll'.fetch = "failed"
             /\ poll'.notifications = <<>>
             /\ \A key \in StateKeys :
                    PersistedActive(file'[key]) <=> PersistedActive(file[key]) ) ]_vars

(***************************************************************************)
(* tracker.py.  main loads state.json, runs check_source on the price      *)
(* sources in turn, then check_enjoy365, then saves the state.  An         *)
(* exception that leaves a check ends the process before the save.         *)
(***************************************************************************)
\* The price sources of the model: the first MaxSources entries of SOURCES.
MaxSources == 2

\* in cents
PRICE_LIMIT == 40000

SOURCES == <<"Toppreise", "Idealo", "PreisRunner", "Google">>

TrackerSources == SubSeq(SOURCES, 1, MaxSources)

ENJOY365 == "Enjoy365"

TRACKER_STATE_FILE == <<"s", "t", "a", "t", "e">>

\* What fetch_html and the extraction give for a price source: an error (a
\* request error, an HTTP error status, a block phrase) or a page, with
\* shop_allowed(text) and extract_prices(text).
SourcePages ==
    { [kind |-> "error", allowed |-> FALSE, prices |-> {}] }
    \cup { [kind |-> "page", allowed |-> FALSE, prices |-> {39900}] }
    \cup [kind : {"page"}, allowed : {TRUE},
          prices : {{}, {39900}, {40000}, {39900, 45000}}]

\* What fetch_html gives for the shop page: an error or a page, with the
\* absolute URLs of its matching links in document order.
EnjoyPages ==
    { [kind |-> "error", links |-> <<>>] }
    \cup [kind : {"page"}, links : {<<>>, <<"u1">>, <<"u1", "u2">>, <<"u2", "u1">>}]

\* telegram(msg): the post delivers the message, gets an error answer that
\* is not looked at ("dropped"), or raises a request error.
TelegramOutcomes == {"ok", "dropped", "raise"}

\* min(prices)
Best(prices) == CHOOSE x \in prices : \A y \in prices : x <= y

\* check_source / check_enjoy365, the except branch: a source not yet in
\* state["errors"] is reported, then appended.
ReportError(name, st, send) ==
    IF name \in Range(st.errors)
    THEN [raised |-> FALSE, state |-> st, sent |-> <<>>, wanted |-> <<>>]
    ELSE IF send = "raise"
    THEN [raised |-> TRUE, state |-> st, sent |-> <<>>, wanted |-> <<"warn">>]
    ELSE [raised |-> FALSE, state |-> [st EXCEPT !.errors = Append(@, name)],
          sent |-> IF send = "ok" THEN <<"warn">> ELSE <<>>, wanted |-> <<"warn">>]

\* Faulty variant: a source that cannot be fetched raises the deal alert.
check_source_AlertsOnError(name, st, page, send) ==
    IF page.kind = "error"
    THEN [raised |-> FALSE, state |-> st, sent |-> <<"deal">>, wanted |-> <<"deal">>,
          fetched |-> FALSE, below |-> FALSE]
    ELSE IF (~page.allowed) \/ page.prices = {} \/ ~(Best(page.prices) < PRICE_LIMIT)
    THEN [raised |-> FALSE, state |-> st, sent |-> <<>>, wanted |-> <<>>,
          fetched |-> TRUE, below |-> FALSE]
    ELSE [raised |-> send = "raise", state |-> st,
          sent |-> IF send = "ok" THEN <<"deal">> ELSE <<>>,
          wanted |-> <<"deal">>, fetched |-> TRUE, below |-> TRUE]

\* check_source(name, url, state): the state it leaves, the message it
\* wanted to send and the message delivered; below: a best price under
\* PRICE_LIMIT was found.
check_source(name, st, page, send) ==
    IF page.kind = "error"
    THEN ReportError(name, st, send) @@ [fetched |-> FALSE, below |-> FALSE]
    ELSE IF (~page.allowed) \/ page.prices = {} \/ ~(Best(page.prices) < PRICE_LIMIT)
    THEN [raised |-> FALSE, state |-> st, sent |-> <<>>, wanted |-> <<>>,
          fetched |-> TRUE, below |-> FALSE]
    ELSE [raised |-> send = "raise", state |-> st,
          sent |-> IF send = "ok" THEN <<"deal">> ELSE <<>>,
          wanted |-> <<"deal">>, fetched |-> TRUE, below |-> TRUE]

\* check_enjoy365, the loop over the links: a link not in state["seen"] is
\* appended to it, then announced; outs gives telegram's outcome per URL.
RECURSIVE enjoy_links(_, _, _, _)
enjoy_links(links, st, outs, sent) ==
    IF links = <<>> THEN [raised |-> FALSE, state |-> st, sent |-> sent]
    ELSE LET full == Head(links) IN
         IF full \in Range(st.seen)
         THEN enjoy_links(Tail(links), st, outs, sent)
         ELSE LET st2 == [st EXCEPT !.seen = Append(@, full)] IN
              IF outs[full] = "raise"
              THEN [raised |-> TRUE, state |-> st2, sent |-> sent]
              ELSE enjoy_links(Tail(links), st2, outs,
                               IF outs[full] = "ok" THEN Append(sent, full) ELSE sent)

check_enjoy365(st, page, send, outs) ==
    IF page.kind = "error"
    THEN LET r == ReportError(ENJOY365, st, send)
         IN  [raised |-> r.raised, state |-> r.state, sent |-> r.sent]
    ELSE enjoy_links(page.links, st, outs, <<>>)

\* state["seen"] / state["errors"] raise on a state without the key.
TrackerUsable(st) == st.kind = "dict" /\ TrackerKeys \subseteq st.keys

\* The invocation starts: main's load_state.
TrackerStart ==
    /\ bot = "tracker" /\ pc = "idle" /\ inv < MaxInvocations
    /\ inv' = inv + 1
    /\ \E l \in {TrackerLoadState(file[TRACKER_STATE_FILE])} :
        IF l.raised \/ ~TrackerUsable(l.state)
        THEN /\ pc' = "crashed"
             /\ tracker_state' = <<>>
             /\ alerted' = [t \in DOMAIN alerted |-> FALSE]
        ELSE /\ pc' = "run"
             /\ tracker_state' = l.state
             /\ UNCHANGED alerted
    /\ ti' = 1
    /\ UNCHANGED <<bot, targets, file, DRY_RUN, attempt, stdout, outbox, tries, poll>>
    /\ UNCHANGED history
    /\ UNCHANGED <<call, notified, warned, updates>>

\* One iteration of main's loop over the price sources.
TrackerCheckSource ==
    /\ bot = "tracker" /\ pc = "run" /\ ti <= Len(targets)
    /\ \E page \in SourcePages :
       \E send \in TelegramOutcomes :
       \E r \in {check_source(targets[ti], tracker_state, page, send)} :
            /\ (r.wanted = <<>>) => send = "ok"
            /\ poll' = [NoPoll EXCEPT !.t = ti, !.raised = r.raised,
                            !.fetch = IF r.fetched THEN "ok" ELSE "failed",
                            !.gets = 1, !.completed = r.fetched,
                            !.was_active = alerted[ti], !.sale_now = r.below,
                            !.notifications = r.wanted, !.sent = r.sent,
                            !.send_failed = r.sent # r.wanted]
            /\ tracker_state' = r.state
            /\ outbox' = outbox \o [i \in 1..Len(r.sent) |-> <<ti, r.sent[i]>>]
            /\ warned' = [n \in DOMAIN warned |->
                            IF n = targets[ti] /\ "warn" \in Range(r.sent) /\ warned[n] < 2
                            THEN warned[n] + 1 ELSE warned[n]]
            /\ alerted' = [t \in DOMAIN alerted |->
                             IF t = ti THEN r.sent = <<"deal">>
                             ELSE IF r.raised /\ t > ti THEN FALSE
                             ELSE alerted[t]]
            /\ IF r.raised
               THEN pc' = "crashed" /\ UNCHANGED ti
               ELSE pc' = "run" /\ ti' = ti + 1
    /\ UNCHANGED <<bot, targets, file, inv, DRY_RUN, attempt, stdout, tries>>
    /\ UNCHANGED history
    /\ UNCHANGED <<call, notified, updates>>

\* The end of main: check_enjoy365, then save_state.
TrackerCheckEnjoy365 ==
    /\ bot = "tracker" /\ pc = "run" /\ ti = Len(targets) + 1
    /\ \E page \in EnjoyPages :
       \E send \in TelegramOutcomes :
       \E outs \in [Urls -> TelegramOutcomes] :
         /\ (page.kind = "page" \/ ENJOY365 \in Range(tracker_state.errors))
                => send = "ok"
         /\ \A u \in Urls :
                (page.kind = "error" \/ u \notin Range(page.links)
                    \/ u \in Range(tracker_state.seen)) => outs[u] = "ok"
         /\ \E r \in {check_enjoy365(tracker_state, page, send, outs)} :
            /\ poll' = [NoPoll EXCEPT !.t = ti, !.raised = r.raised,
                            !.fetch = IF page.kind = "page" THEN "ok" ELSE "failed",
                            !.gets = 1, !.completed = page.kind = "page",
                            !.sale_now = \E u \in Range(page.links) :
                                            u \notin Range(tracker_state.seen),
                            !.sent = r.sent]
            /\ tracker_state' = r.state
            /\ outbox' = outbox \o [i \in 1..Len(r.sent) |-> <<ti, r.sent[i]>>]
            /\ notified' = [u \in Urls |->
                              notified[u] + (IF u \in Range(r.sent) THEN 1 ELSE 0)]
            /\ warned' = [n \in DOMAIN warned |->
                            IF n = ENJOY365 /\ "warn" \in Range(r.sent) /\ warned[n] < 2
                            THEN warned[n] + 1 ELSE warned[n]]
            /\ IF r.raised
               THEN pc' = "crashed" /\ UNCHANGED file
               ELSE /\ pc' = "done"
                    /\ file' = [file EXCEPT ![TRACKER_STATE_FILE] = r.state]
    /\ UNCHANGED <<bot, targets, inv, DRY_RUN, ti, attempt, stdout, tries>>
    /\ UNCHANGED history
    /\ UNCHANGED <<call, alerted, updates>>

\* The process ends: its memory is gone, state.json stays.
TrackerExit ==
    /\ bot = "tracker" /\ pc \in {"done", "crashed"}
    /\ pc' = "idle"
    /\ ti' = 1 /\ outbox' = <<>> /\ poll' = NoPoll
    /\ tracker_state' = <<>>
    /\ UNCHANGED <<bot, targets, file, inv, DRY_RUN, attempt, stdout, tries>>
    /\ UNCHANGED history
    /\ UNCHANGED <<call, notified, alerted, warned, updates>>

\* The state.json an invocation may find that no run of the script wrote.
TrackerInitFiles == {TrackerBlank("missing"), TrackerBlank("corrupt")}

\* The state before the first invocation.  names: the source names whose
\* warnings the history variable warned counts.
TrackerInit(names) ==
    /\ bot = "tracker"
    /\ targets = TrackerSources
    /\ file \in [{TRACKER_STATE_FILE} -> TrackerInitFiles]
    /\ inv = 0 /\ pc = "idle"
    /\ DRY_RUN = FALSE /\ ti = 1 /\ attempt = 0
    /\ stdout = <<>> /\ outbox = <<>> /\ tries = NoTries /\ poll = NoPoll
    /\ delivered = [t \in 1..2 |-> {}]
    /\ resent = FALSE
    /\ clean = [t \in 1..2 |-> FALSE]
    /\ hist = [t \in 1..2 |-> <<>>]
    /\ failStreak = [t \in 1..2 |-> FALSE]
    /\ owed = [t \in 1..2 |-> "no"]
    /\ call = NoCall
    /\ tracker_state = <<>>
    /\ notified = [u \in Urls |-> 0]
    /\ alerted = [t \in 1..Len(TrackerSources) |-> FALSE]
    /\ warned = [n \in names |-> 0]
    /\ updates = <<>>

InitTracker == TrackerInit(Range(TrackerSources) \cup {ENJOY365})

NextTracker ==
    \/ TrackerStart
    \/ TrackerCheckSource
    \/ TrackerCheckEnjoy365
    \/ TrackerExit

SpecTracker == InitTracker /\ [][NextTracker]_vars

\* The URLs state.json holds as seen.
PersistedSeen(f) == IF f.kind = "dict" /\ "seen" \in f.keys THEN Range(f.seen) ELSE {}

(***************************************************************************)
(* C14.  tracker.py, over its invocations: every URL is announced at most  *)
(* once, a URL that state.json holds as seen has been announced, and the   *)
(* seen list of state.json only grows, also when a send raises part-way.   *)
(***************************************************************************)
C14_SeenOnceAndGrowing ==
    [][ /\ \A u \in Urls : notified'[u] <= 1
        /\ \A u \in PersistedSeen(file'[TRACKER_STATE_FILE]) : notified'[u] = 1
        /\ PersistedSeen(file[TRACKER_STATE_FILE])
                \subseteq PersistedSeen(file'[TRACKER_STATE_FILE]) ]_vars

(***************************************************************************)
(* C15.  tracker.check_source is edge-triggered: a source whose poll in    *)
(* the invocation before found a best price under PRICE_LIMIT and          *)
(* delivered the deal alert, and whose poll now finds a best price under   *)
(* PRICE_LIMIT again, does not send the deal alert again.                  *)
(***************************************************************************)
C15_DealAlertOnce ==
    (bot = "tracker" /\ poll.t # 0 /\ poll.was_active /\ poll.sale_now)
        => (poll.notifications = <<>> /\ poll.sent = <<>>)

(***************************************************************************)
(* state_file_for_target on its own: main's choice of the state file for   *)
(* two targets of one configuration.                                       *)
(***************************************************************************)
\* The longest id drawn.
MaxIdLen == 2

IdChars == {"a", "_", "/", ".", " "}

\* The ids of targets.json: strings up to MaxIdLen, the empty string for a
\* missing id, and the literal "unknown".
TargetIds == UNION {[1..n -> IdChars] : n \in 0..MaxIdLen} \cup {UNKNOWN}

TargetWithId(id) == [id |-> id, url |-> "u", currency_expected |-> "CHF"]

\* Fields every specification of a single function leaves at rest.
NothingRuns ==
    /\ WatchersIdle
    /\ TrackerIdle

InitStateFile ==
    /\ NothingRuns
    /\ \E id1 \in TargetIds : \E id2 \in TargetIds :
        call = [fn |-> "state_file_for_target", args |-> <<id1, id2>>,
                returned |-> FALSE, result |-> <<>>]

\* main, lines 334-335, for both targets.
StateFileForTarget ==
    /\ call.fn = "state_file_for_target" /\ ~call.returned
    /\ call' = [call EXCEPT
                    !.returned = TRUE,
                    !.result = << KeyOf("shop", TargetWithId(call.args[1])),
                                  KeyOf("shop", TargetWithId(call.args[2])) >>]
    /\ UNCHANGED <<bot, targets, file, inv, pc>>
    /\ UNCHANGED proc
    /\ UNCHANGED history
    /\ UNCHANGED tracker

SpecStateFile == InitStateFile /\ [][StateFileForTarget]_vars

(***************************************************************************)
(* C16.  Two targets with distinct ids (a missing id falls back to         *)
(* "unknown") get distinct state files.                                    *)
(***************************************************************************)
C16_DistinctStateFiles ==
    (call.fn = "state_file_for_target" /\ call.returned
        /\ call.args[1] # call.args[2])
    => call.result[1] # call.result[2]

(***************************************************************************)
(* Deals and their ranking (shop bot.py and mnstry_watch.py).  A deal is   *)
(* the dict collect_deals appends: title, variant_id, price, compare_at,   *)
(* discount_abs, discount_pct.  Prices are in cents; discount_pct is the   *)
(* exact fraction <<numerator, denominator>> with a positive denominator.  *)
(***************************************************************************)
\* p < q and p = q for fractions with positive denominators
FracLess(p, q) == p[1] * q[2] < q[1] * p[2]
FracEq(p, q) == p[1] * q[2] = q[1] * p[2]

\* Faulty variant: the key stops at the price, without the variant_id.
KeyLess_NoVariantId(a, b) ==
    \/ FracLess(b.discount_pct, a.discount_pct)
    \/ /\ FracEq(a.discount_pct, b.discount_pct)
       /\ \/ b.discount_abs < a.discount_abs
          \/ /\ a.discount_abs = b.discount_abs
             /\ a.price < b.price

\* key(a) < key(b) for rank_deals' key
\* (-discount_pct, -discount_abs, price, variant_id), as Python orders tuples.
KeyLess(a, b) ==
    \/ FracLess(b.discount_pct, a.discount_pct)
    \/ /\ FracEq(a.discount_pct, b.discount_pct)
       /\ \/ b.discount_abs < a.discount_abs
          \/ /\ a.discount_abs = b.discount_abs
             /\ \/ a.price < b.price
                \/ /\ a.price = b.price
                   /\ a.variant_id < b.variant_id

\* sorted() is stable: an element goes behind the elements whose key is
\* not greater than its own.
RECURSIVE insert_sorted(_, _)
insert_sorted(ranked, d) ==
    IF ranked = <<>> THEN <<d>>
    ELSE IF KeyLess(d, Head(ranked)) THEN <<d>> \o ranked
    ELSE <<Head(ranked)>> \o insert_sorted(Tail(ranked), d)

RECURSIVE rank_deals(_)
rank_deals(deals) ==
    IF deals = <<>> THEN <<>>
    ELSE insert_sorted(rank_deals(SubSeq(deals, 1, Len(deals) - 1)), deals[Len(deals)])

\* The longest list of deals drawn.
MaxDeals == 3

\* Deals for rank_deals on its own: every field of the key takes two values.
RankedDeals ==
    [title : {"P"}, variant_id : {0, 1}, price : {900, 1000}, compare_at : {2000},
     discount_abs : {100, 200}, discount_pct : {<<10, 1>>, <<20, 1>>}]

InitRankDeals ==
    /\ NothingRuns
    /\ \E n \in 0..MaxDeals : \E deals \in [1..n -> RankedDeals] :
        call = [fn |-> "rank_deals", args |-> deals, returned |-> FALSE, result |-> <<>>]

RankDeals ==
    /\ call.fn = "rank_deals" /\ ~call.returned
    /\ call' = [call EXCEPT !.returned = TRUE, !.result = rank_deals(call.args)]
    /\ UNCHANGED <<bot, targets, file, inv, pc>>
    /\ UNCHANGED proc
    /\ UNCHANGED history
    /\ UNCHANGED tracker

SpecRankDeals == InitRankDeals /\ [][RankDeals]_vars

\* How often x occurs in the sequence.
Occurrences(seq, x) == Cardinality({i \in 1..Len(seq) : seq[i] = x})

\* a may stand right before b: higher discount_pct first; on equal pct the
\* higher discount_abs; then the lower price; then the lower variant_id.
MayPrecede(a, b) ==
    \/ FracLess(b.discount_pct, a.discount_pct)
    \/ /\ FracEq(a.discount_pct, b.discount_pct)
       /\ b.discount_abs < a.discount_abs
    \/ /\ FracEq(a.discount_pct, b.discount_pct)
       /\ a.discount_abs = b.discount_abs
       /\ a.price < b.price
    \/ /\ FracEq(a.discount_pct, b.discount_pct)
       /\ a.discount_abs = b.discount_abs
       /\ a.price = b.price
       /\ a.variant_id <= b.variant_id

calc_discount_ZeroDivides(compare_at, price) ==
    IF compare_at < 0
    THEN <<compare_at - price, <<0, 1>>>>
    ELSE <<compare_at - price, <<(compare_at - price) * 100, compare_at>>>>

\* calc_discount: (discount_abs, discount_pct), the percentage as a fraction.
calc_discount(compare_at, price) ==
    IF compare_at <= 0
    THEN <<compare_at - price, <<0, 1>>>>
    ELSE <<compare_at - price, <<(compare_at - price) * 100, compare_at>>>>

\* int(variant_id) if variant_id is not None else 0
VidInt(variant_id) == IF variant_id = None THEN 0 ELSE variant_id

\* The loop over the variants of one product.  acc: the deals so far, the
\* seen_variant_ids, product_has_discount and the two counters.  shop
\* skips a variant whose id it has seen (dedupe); mnstry_watch does not.
RECURSIVE collect_variants(_, _, _, _)
collect_variants(variants, title, acc, dedupe) ==
    IF variants = <<>> THEN acc
    ELSE LET v == Head(variants)
             price == v.price
             cap == v.compare_at_price
             vid_int == VidInt(v.id)
         IN  IF price = None \/ cap = None
             THEN collect_variants(Tail(variants), title, acc, dedupe)
             ELSE IF dedupe /\ vid_int \in acc.seen_variant_ids
             THEN collect_variants(Tail(variants), title, acc, dedupe)
             ELSE IF cap > price
             THEN collect_variants(Tail(variants), title,
                    [acc EXCEPT
                        !.seen_variant_ids = @ \cup {vid_int},
                        !.product_has_discount = TRUE,
                        !.discounted_variants_count = @ + 1,
                        !.deals = Append(@,
                            [title |-> title, variant_id |-> vid_int, price |-> price,
                             compare_at |-> cap,
                             discount_abs |-> calc_discount(cap, price)[1],
                             discount_pct |-> calc_discount(cap, price)[2]])],
                    dedupe)
             ELSE collect_variants(Tail(variants), title,
                    [acc EXCEPT !.seen_variant_ids = @ \cup {vid_int}], dedupe)

\* The loop over the products.
RECURSIVE collect_products(_, _, _)
collect_products(products, acc, dedupe) ==
    IF products = <<>> THEN acc
    ELSE LET a == collect_variants(Head(products).variants, Head(products).title,
                                   [acc EXCEPT !.product_has_discount = FALSE], dedupe)
         IN  collect_products(Tail(products),
                [a EXCEPT !.discounted_products_count =
                            @ + (IF a.product_has_discount THEN 1 ELSE 0)],
                dedupe)

\* Faulty variant: every product of the catalog is counted as discounted.
collect_deals_CountsAll(script, products) ==
    LET a == collect_products(products,
                [deals |-> <<>>, seen_variant_ids |-> {}, product_has_discount |-> FALSE,
                 discounted_products_count |-> 0, discounted_variants_count |-> 0],
                script = "shop")
    IN  [deals |-> a.deals,
         discounted_products_count |-> Len(products),
         discounted_variants_count |-> a.discounted_variants_count]

collect_deals(script, products) ==
    LET a == collect_products(products,
                [deals |-> <<>>, seen_variant_ids |-> {}, product_has_discount |-> FALSE,
                 discounted_products_count |-> 0, discounted_variants_count |-> 0],
                script = "shop")
    IN  [deals |-> a.deals,
         discounted_products_count |-> a.discounted_products_count,
         discounted_variants_count |-> a.discounted_variants_count]

\* The largest catalog drawn: products, and variants of a product.
MaxProducts == 2
MaxVariants == 2

\* price and compare_at_price of a variant, in cents: no compare-at price,
\* equal prices, one cent apart, and two discounts of 50 %.
VariantPrices ==
    { <<1000, None>>, <<1000, 1000>>, <<999, 1000>>, <<1000, 2000>>, <<500, 1000>> }

Variants ==
    { [id |-> i, price |-> pc2[1], compare_at_price |-> pc2[2]] :
        i \in {None, 1}, pc2 \in VariantPrices }

Titles == <<"P", "Q", "R">>

\* The catalogs drawn: product k has the title Titles[k].
Catalogs ==
    UNION { { [k \in 1..n |-> [title |-> Titles[k], variants |-> vs[k]]] :
                vs \in [1..n -> UNION {[1..m -> Variants] : m \in 0..MaxVariants}] } :
            n \in 0..MaxProducts }

InitCollectDeals ==
    /\ NothingRuns
    /\ \E script \in {"shop", "mnstry"} : \E products \in Catalogs :
        call = [fn |-> "collect_deals",
                args |-> [script |-> script, products |-> products],
                returned |-> FALSE, result |-> <<>>]

\* run_once_for_target, lines 269-273 (mnstry_watch main, 179-183):
\* collect_deals, sale_now, rank_deals.
CollectDeals ==
    /\ call.fn = "collect_deals" /\ ~call.returned
    /\ \E c \in {collect_deals(call.args.script, call.args.products)} :
        call' = [call EXCEPT
                    !.returned = TRUE,
                    !.result = [deals |-> c.deals,
                                discounted_products |-> c.discounted_products_count,
                                discounted_variants |-> c.discounted_variants_count,
                                sale_now |-> Len(c.deals) > 0,
                                ranked |-> rank_deals(c.deals)]]
    /\ UNCHANGED <<bot, targets, file, inv, pc>>
    /\ UNCHANGED proc
    /\ UNCHANGED history
    /\ UNCHANGED tracker

SpecCollectDeals == InitCollectDeals /\ [][CollectDeals]_vars

\* The orders in which n things can be taken.
Orders(n) == {f \in [1..n -> 1..n] : \A i, j \in 1..n : f[i] = f[j] => i = j}

\* The catalogs with the same products and variants in another order.
Reorderings(products) ==
    LET n == Len(products)
        shuffled(p) == { [p EXCEPT !.variants = [i \in 1..Len(@) |-> p.variants[f[i]]]] :
                            f \in Orders(Len(p.variants)) }
    IN  { q \in [1..n -> UNION {shuffled(products[k]) : k \in 1..n}] :
            \E f \in Orders(n) : \A k \in 1..n : q[k] \in shuffled(products[f[k]]) }

(***************************************************************************)
(* C18.  The ranked deals do not depend on the order of the catalog: every *)
(* reordering of its products and variants gives, after collect_deals and  *)
(* rank_deals, the same sequence of deals.                                 *)
(***************************************************************************)
C18_OrderIndependent ==
    (call.fn = "collect_deals" /\ call.returned)
    => \A q \in Reorderings(call.args.products) :
            rank_deals(collect_deals(call.args.script, q).deals) = call.result.ranked

(***************************************************************************)
(* C19.  A variant is a deal only when its compare-at price is more than   *)
(* one cent above its price: no deal has compare_at - price <= 0.01, and   *)
(* a catalog of such variants does not make sale_now true.                 *)
(***************************************************************************)
C19_CentTolerance ==
    (call.fn = "collect_deals" /\ call.returned)
    => ( /\ \A i \in 1..Len(call.result.deals) :
                call.result.deals[i].compare_at - call.result.deals[i].price > CENT
         /\ call.result.sale_now
                => \E k \in 1..Len(call.args.products) :
                   \E v \in Range(call.args.products[k].variants) :
                        /\ v.price # None /\ v.compare_at_price # None
                        /\ v.compare_at_price - v.price > CENT )

(***************************************************************************)
(* C20.  The deals one call of collect_deals returns hold at most one deal *)
(* per variant id (a missing id counts as 0).                              *)
(***************************************************************************)
C20_OneDealPerVariant ==
    (call.fn = "collect_deals" /\ call.returned)
    => \A i, j \in 1..Len(call.result.deals) :
            call.result.deals[i].variant_id = call.result.deals[j].variant_id => i = j

(***************************************************************************)
(* calc_discount on its own.                                               *)
(***************************************************************************)
\* The largest amount drawn, besides the amounts of the examples.
MaxAmount == 5

Amounts == ((0 - MaxAmount)..MaxAmount) \cup {75, 100}

InitCalcDiscount ==
    /\ NothingRuns
    /\ \E compare_at \in Amounts : \E price \in Amounts :
        call = [fn |-> "calc_discount", args |-> <<compare_at, price>>,
                returned |-> FALSE, result |-> <<>>]

CalcDiscount ==
    /\ call.fn = "calc_discount" /\ ~call.returned
    /\ call' = [call EXCEPT !.returned = TRUE,
                            !.result = calc_discount(call.args[1], call.args[2])]
    /\ UNCHANGED <<bot, targets, file, inv, pc>>
    /\ UNCHANGED proc
    /\ UNCHANGED history
    /\ UNCHANGED tracker

SpecCalcDiscount == InitCalcDiscount /\ [][CalcDiscount]_vars

(***************************************************************************)
(* C21.  calc_discount(reference, current): discount_abs is reference -    *)
(* current; discount_pct is discount_abs / reference * 100 when reference  *)
(* > 0 and 0 when reference <= 0; no division by zero.                     *)
(***************************************************************************)
C21_CalcDiscount ==
    (call.fn = "calc_discount" /\ call.returned)
    => LET reference == call.args[1]
           current == call.args[2]
           discount_abs == call.result[1]
           pct == call.result[2]
       IN  /\ discount_abs = reference - current
           /\ pct[2] # 0
           /\ reference > 0 => pct[1] * reference = discount_abs * 100 * pct[2]
           /\ reference <= 0 => pct[1] = 0

\* The two examples: (100, 75) gave (25, 25 %) and (0, 5) gave 0 %.
C21_Witness ==
    /\ call.fn = "calc_discount" /\ call.returned
    /\ \/ /\ call.args = <<100, 75>>
          /\ call.result[1] = 25 /\ call.result[2][1] = 25 * call.result[2][2]
       \/ /\ call.args = <<0, 5>>
          /\ call.result[2][1] = 0

(***************************************************************************)
(* parse_price (canyon bot.py) on its own.  A string is a sequence of      *)
(* characters; a number is the exact decimal fraction num / den with the   *)
(* sign in num.                                                            *)
(***************************************************************************)
Digits == {"0", "1", "2", "3", "4", "5", "6", "7", "8", "9"}

DigitValue(c) ==
    CASE c = "0" -> 0 [] c = "1" -> 1 [] c = "2" -> 2 [] c = "3" -> 3 [] c = "4" -> 4
      [] c = "5" -> 5 [] c = "6" -> 6 [] c = "7" -> 7 [] c = "8" -> 8 [] c = "9" -> 9

\* The value of a string of digits; 0 for the empty string.
RECURSIVE DigitsValue(_)
DigitsValue(ds) ==
    IF ds = <<>> THEN 0
    ELSE DigitsValue(SubSeq(ds, 1, Len(ds) - 1)) * 10 + DigitValue(ds[Len(ds)])

RECURSIVE Pow10(_)
Pow10(n) == IF n = 0 THEN 1 ELSE 10 * Pow10(n - 1)

\* s.replace(c, ""), s.replace(c, d), c in s, s.rfind(c)
Without(str, c) == SelectSeq(str, LAMBDA x : x # c)
Replaced(str, c, d) == [i \in 1..Len(str) |-> IF str[i] = c THEN d ELSE str[i]]
Has(str, c) == \E i \in 1..Len(str) : str[i] = c
RFind(str, c) == CHOOSE i \in 1..Len(str) : str[i] = c /\ \A j \in (i + 1)..Len(str) : str[j] # c

\* Lines 112-115: the apostrophes go, then everything that is not a digit,
\* comma, dot or minus sign.
Cleaned(raw) == SelectSeq(raw, LAMBDA x : x \in Digits \cup {",", ".", "-"})

\* re.search(r"\d+\.\d{2}$", s)
TwoDecimals(str) ==
    /\ Len(str) >= 4
    /\ str[Len(str)] \in Digits /\ str[Len(str) - 1] \in Digits
    /\ str[Len(str) - 2] = "."
    /\ str[Len(str) - 3] \in Digits

\* Lines 120-138: the separators of the cleaned string are resolved.
Normalized(str) ==
    IF Has(str, ".") /\ Has(str, ",")
    THEN LET decimal_sep == IF RFind(str, ".") > RFind(str, ",") THEN "." ELSE ","
             thousands_sep == IF decimal_sep = "." THEN "," ELSE "."
         IN  Replaced(Without(str, thousands_sep), decimal_sep, ".")
    ELSE IF Has(str, ",") THEN Replaced(str, ",", ".")
    ELSE IF Has(str, ".")
    THEN IF TwoDecimals(str) THEN str ELSE Without(str, ".")
    ELSE str

\* float(text) for a text of digits, dots and minus signs: an optional
\* leading minus, digits with at most one dot, at least one digit;
\* anything else is a ValueError.
Float(text) ==
    LET negative == text # <<>> /\ Head(text) = "-"
        body == IF negative THEN Tail(text) ELSE text
        dots == Len(SelectSeq(body, LAMBDA x : x = "."))
        dot == IF dots = 1 THEN RFind(body, ".") ELSE Len(body) + 1
        whole == SubSeq(body, 1, dot - 1)
        fraction == SubSeq(body, dot + 1, Len(body))
    IN  IF \/ \E i \in 1..Len(body) : body[i] \notin Digits \cup {"."}
           \/ dots > 1
           \/ Len(whole) + Len(fraction) = 0
        THEN [error |-> TRUE, num |-> 0, den |-> 1]
        ELSE [error |-> FALSE,
              num |-> (IF negative THEN -1 ELSE 1) * DigitsValue(whole \o fraction),
              den |-> Pow10(Len(fraction))]

NoPrice == [raised |-> FALSE, is_none |-> TRUE, num |-> 0, den |-> 1]

\* Faulty variant: float's ValueError is not caught.
FloatOrNone_Uncaught(text) ==
    IF Float(text).error
    THEN [NoPrice EXCEPT !.raised = TRUE]
    ELSE [raised |-> FALSE, is_none |-> FALSE,
          num |-> Float(text).num, den |-> Float(text).den]

\* Lines 140-143: float(normalized), None when it raises.
FloatOrNone(text) ==
    IF Float(text).error
    THEN NoPrice
    ELSE [raised |-> FALSE, is_none |-> FALSE,
          num |-> Float(text).num, den |-> Float(text).den]

parse_price(raw) ==
    IF raw = <<>> THEN NoPrice
    ELSE IF Cleaned(raw) = <<>> THEN NoPrice
    ELSE FloatOrNone(Normalized(Cleaned(raw)))

\* The longest string drawn over the characters 1 2 . , - and space.
MaxPriceLen == 4

\* The strings drawn: every string up to MaxPriceLen, and the longer
\* examples 1234,56  1234.5  1.234,56  1,234.56  1.234  1.234.56  12-34
\* CHF 1'234.50
PriceTexts ==
    UNION {[1..n -> {"1", "2", ".", ",", "-", " "}] : n \in 0..MaxPriceLen}
    \cup
    { <<"1", "2", "3", "4", ",", "5", "6">>,
      <<"1", "2", "3", "4", ".", "5">>,
      <<"1", ".", "2", "3", "4", ",", "5", "6">>,
      <<"1", ",", "2", "3", "4", ".", "5", "6">>,
      <<"1", ".", "2", "3", "4">>,
      <<"1", ".", "2", "3", "4", ".", "5", "6">>,
      <<"1", "2", "-", "3", "4">>,
      <<"C", "H", "F", " ", "1", "'", "2", "3", "4", ".", "5", "0">> }

InitParsePrice ==
    /\ NothingRuns
    /\ \E raw \in PriceTexts :
        call = [fn |-> "parse_price", args |-> raw, returned |-> FALSE, result |-> <<>>]

ParsePrice ==
    /\ call.fn = "parse_price" /\ ~call.returned
    /\ call' = [call EXCEPT !.returned = TRUE, !.result = parse_price(call.args)]
    /\ UNCHANGED <<bot, targets, file, inv, pc>>
    /\ UNCHANGED proc
    /\ UNCHANGED history
    /\ UNCHANGED tracker

SpecParsePrice == InitParsePrice /\ [][ParsePrice]_vars

\* The result is the number whole.fraction, the two given as digit strings.
IsDecimal(result, whole, fraction) ==
    /\ ~result.raised /\ ~result.is_none
    /\ result.num * Pow10(Len(fraction)) = DigitsValue(whole \o fraction) * result.den

\* The digits and separators of a string, and how many separators it has.
Core(raw) == SelectSeq(raw, LAMBDA x : x \in Digits \cup {",", "."})
Separators(str) == {i \in 1..Len(str) : str[i] \in {",", "."}}

(***************************************************************************)
(* C22.  A string without a minus sign whose digits hold exactly one       *)
(* separator ('.' or ','), with digits before it and one or more digits    *)
(* after it, is parsed to exactly that decimal number.                     *)
(***************************************************************************)
C22_SingleSeparatorExact ==
    (call.fn = "parse_price" /\ call.returned)
    => LET core == Core(call.args) IN
       ( /\ ~Has(call.args, "-")
         /\ Cardinality(Separators(core)) = 1
         /\ \A i \in Separators(core) : 1 < i /\ i < Len(core) )
       => \A i \in Separators(core) :
            IsDecimal(call.result, SubSeq(core, 1, i - 1), SubSeq(core, i + 1, Len(core)))

(***************************************************************************)
(* C23.  The separator rules on a string of digits and separators that     *)
(* starts and ends with a digit: with both '.' and ',' the last separator  *)
(* is the decimal point and the other kind is removed; with dots only the  *)
(* last dot is the decimal point when exactly two digits follow it, else   *)
(* every dot is removed; the result is the number so formed.               *)
(***************************************************************************)
C23_SeparatorRules ==
    (call.fn = "parse_price" /\ call.returned)
    => LET str == call.args
           n == Len(str)
           seps == Separators(str)
           last == CHOOSE i \in seps : \A j \in seps : j <= i
           digits(t) == SelectSeq(t, LAMBDA x : x \in Digits)
       IN  ( /\ Core(str) = str /\ n >= 1
             /\ str[1] \in Digits /\ str[n] \in Digits )
           => /\ (Has(str, ".") /\ Has(str, ",")
                    /\ \A i \in seps : str[i] = str[last] => i = last)
                 => IsDecimal(call.result, digits(SubSeq(str, 1, last - 1)),
                              SubSeq(str, last + 1, n))
              /\ (Has(str, ".") /\ ~Has(str, ",") /\ last = n - 2)
                 => IsDecimal(call.result, digits(SubSeq(str, 1, last - 1)),
                              SubSeq(str, last + 1, n))
              /\ (Has(str, ".") /\ ~Has(str, ",") /\ last # n - 2)
                 => IsDecimal(call.result, digits(str), <<>>)

(***************************************************************************)
(* C24.  parse_price never raises, and it returns None when the string     *)
(* holds no digit and when what is left of it is no number: a minus sign   *)
(* behind a digit, several minus signs, or several commas and no dot.      *)
(***************************************************************************)
C24_Total ==
    (call.fn = "parse_price" /\ call.returned)
    => LET str == call.args
           at(c) == {i \in 1..Len(str) : str[i] = c}
       IN  /\ ~call.result.raised
           /\ (\A i \in 1..Len(str) : str[i] \notin Digits) => call.result.is_none
           /\ (\E i \in at("-") : \E j \in 1..(i - 1) : str[j] \in Digits)
                => call.result.is_none
           /\ Cardinality(at("-")) >= 2 => call.result.is_none
           /\ (Cardinality(at(",")) >= 2 /\ at(".") = {}) => call.result.is_none

\* 12-34 came back as None.
C24_Witness ==
    /\ call.fn = "parse_price" /\ call.returned
    /\ call.args = <<"1", "2", "-", "3", "4">>
    /\ call.result.is_none /\ ~call.result.raised

(***************************************************************************)
(* C25.  No transition is missed: after polls that observed the condition  *)
(* inactive and then active with a failed send, every completed            *)
(* normal-mode poll that still observes it active calls the notifier with  *)
(* the sale notification, until one poll has delivered it.                 *)
(***************************************************************************)
C25_FailedSendIsRetried ==
    [][ (PollStep /\ owed[ti] = "owed" /\ (~DRY_RUN)
            /\ poll'.completed /\ poll'.sale_now)
        => poll'.notifications # <<>> ]_vars

(***************************************************************************)
(* C26.  With the default configuration, in shop and canyon: the poll      *)
(* that observes the condition inactive after a poll that observed it      *)
(* active has nothing to send and leaves the persisted state inactive,     *)
(* and the poll after it that observes the condition active again has the  *)
(* sale notification to send (completed normal-mode polls).                *)
(***************************************************************************)
C26_SaleEndRearms ==
    [][ (PollStep /\ bot \in {"shop", "canyon"} /\ (~DRY_RUN) /\ poll'.completed
            /\ Len(hist[ti]) >= 1)
        => LET n == Len(hist[ti])
               after == file'[KeyOf(bot, targets[ti])]
           IN  /\ (hist[ti][n].obs /\ ~poll'.sale_now)
                    => /\ poll'.notifications = <<>>
                       /\ poll'.sent = <<>>
                       /\ poll'.saved
                       /\ ~PersistedActive(after)
               /\ (n >= 2 /\ hist[ti][n - 1].obs /\ (~hist[ti][n].obs) /\ poll'.sale_now)
                    => /\ ~PersistedActive(FileOf(ti))
                       /\ poll'.notifications # <<>>
                       /\ (~poll'.send_failed => SaleSent(poll') # {}) ]_vars

\* Three completed polls of a target observed active, inactive, active, and
\* the first and the third delivered the sale notification.
C26_Witness ==
    /\ bot \in {"shop", "canyon"}
    /\ Len(hist[1]) = 3
    /\ hist[1][1].obs /\ hist[1][1].notified
    /\ (~hist[1][2].obs) /\ ~hist[1][2].notified
    /\ hist[1][3].obs /\ hist[1][3].notified
    /\ PersistedActive(FileOf(1))

(***************************************************************************)
(* C27.  After every normal-mode poll whose fetch returned a document, the *)
(* target's state file exists and its sale_active is the condition the     *)
(* poll observed (inactive when the document yields no price).             *)
(***************************************************************************)
C27_StateFollowsObservation ==
    [][ (PollStep /\ (~DRY_RUN) /\ poll'.fetch = "ok")
        => LET after == file'[KeyOf(bot, targets[ti])]
           IN  /\ after.kind = "dict"
               /\ "sale_active" \in after.keys
               /\ after.sale_active = poll'.sale_now ]_vars

(***************************************************************************)
(* The decision of a poll on its own: run_once_for_target (shop) and       *)
(* run_target (canyon) on two state files that differ at most in           *)
(* last_signature, last_price and last_original_price, with one response.  *)
(***************************************************************************)
\* The state files a run can find: every set of keys, a placeholder for
\* the value of an absent key.
DecisionFiles ==
    {f \in [kind : {"dict"}, keys : SUBSET AllKeys, sale_active : BOOLEAN,
            last_price : {None, 1000}, last_original_price : {None, 1500},
            last_signature : {<<>>, <<1, 1000, 1500>>}] :
        /\ "sale_active" \notin f.keys => ~f.sale_active
        /\ "last_price" \notin f.keys => f.last_price = None
        /\ "last_original_price" \notin f.keys => f.last_original_price = None
        /\ "last_signature" \notin f.keys => f.last_signature = <<>>}

\* The two files hold the same sale_active, or both none.
SameCondition(f, g) ==
    /\ ("sale_active" \in f.keys) = ("sale_active" \in g.keys)
    /\ f.sale_active = g.sale_active

\* What a poll decides: the notifications and the sale_active of the state
\* it hands to save_state.
Decision(script, f, resp, dry_run) ==
    LET r == IF script = "shop"
             THEN run_once_for_target(TargetA, f, resp, dry_run)
             ELSE run_target(TargetA, f, resp)
    IN  [notifications |-> r.notifications,
         completed |-> r.completed,
         sale_active |-> WasActive(r.state)]

InitDecision ==
    /\ NothingRuns
    /\ \E script \in {"shop", "canyon"} : \E dry_run \in BOOLEAN :
       \E resp \in Responses : \E f \in DecisionFiles :
       \E g \in {x \in DecisionFiles : SameCondition(f, x)} :
        call = [fn |-> "decision",
                args |-> [script |-> script, dry_run |-> dry_run, resp |-> resp,
                          state_1 |-> f, state_2 |-> g],
                returned |-> FALSE, result |-> <<>>]

Decide ==
    /\ call.fn = "decision" /\ ~call.returned
    /\ call' = [call EXCEPT
            !.returned = TRUE,
            !.result = << Decision(call.args.script, call.args.state_1,
                                   call.args.resp, call.args.dry_run),
                          Decision(call.args.script, call.args.state_2,
                                   call.args.resp, call.args.dry_run) >>]
    /\ UNCHANGED <<bot, targets, file, inv, pc>>
    /\ UNCHANGED proc
    /\ UNCHANGED history
    /\ UNCHANGED tracker

SpecDecision == InitDecision /\ [][Decide]_vars

(***************************************************************************)
(* C28.  Two polls of shop or canyon that start from persisted states      *)
(* differing only in last_signature, last_price or last_original_price     *)
(* and observe the same document decide the same notifications and the     *)
(* same next sale_active.                                                  *)
(***************************************************************************)
C28_DecisionIgnoresDiagnostics ==
    (call.fn = "decision" /\ call.returned)
    => /\ call.result[1].notifications = call.result[2].notifications
       /\ call.result[1].sale_active = call.result[2].sale_active

\* Two completed polls from states with different signatures and prices,
\* both inactive, decided to notify and to store sale_active = true.
C28_Witness ==
    /\ call.fn = "decision" /\ call.returned
    /\ call.args.state_1.last_signature # call.args.state_2.last_signature
    /\ call.args.state_1.last_price # call.args.state_2.last_price
    /\ call.result[1].completed /\ call.result[2].completed
    /\ call.result[1].notifications # <<>>
    /\ call.result[2].notifications # <<>>
    /\ call.result[1].sale_active /\ call.result[2].sale_active

(***************************************************************************)
(* The four scripts side by side: a behaviour runs one of them.            *)
(***************************************************************************)
\* Any of the four scripts; the warnings of tracker.py are not counted here.
InitScripts == Init \/ TrackerInit({})

NextScripts == Next \/ NextTracker

SpecScripts == InitScripts /\ [][NextScripts]_vars

\* The messages that announce a favorable condition: the sale messages, the
\* deal alert and the announcement of a new offer.
FavorableMsgs == SaleMsgs \cup {"deal"} \cup Urls

MissingFields(t) ==
    \/ strip(targets[t].id) = <<>>
    \/ targets[t].url = ""
    \/ (bot = "canyon" /\ targets[t].currency_expected = "")

(***************************************************************************)
(* C30.  In shop and canyon a target with a missing required field is      *)
(* skipped: it is run at most once and no GET is made for it, nothing is   *)
(* sent to the notifier for it, its state file is not written, and when    *)
(* the batch is done every other target has been polled.                   *)
(***************************************************************************)
C30_InvalidTargetSkipped ==
    bot \in {"shop", "canyon"}
    => \A t \in 1..Len(targets) :
          MissingFields(t)
          => /\ tries[t].runs <= 1
             /\ tries[t].gets = 0
             /\ \A i \in 1..Len(outbox) : outbox[i][1] # t
             /\ FileOf(t) = NoFile
             /\ pc = "done" => \A u \in 1..Len(targets) : tries[u].runs >= 1

(***************************************************************************)
(* collect_deals of the shop bot and its counters, on catalogs of few      *)
(* kinds of variant: discounted with id 1 or id 2, and not discounted.     *)
(***************************************************************************)
CountedVariants ==
    { [id |-> 1, price |-> 500, compare_at_price |-> 1000],
      [id |-> 2, price |-> 500, compare_at_price |-> 1000],
      [id |-> 1, price |-> 1000, compare_at_price |-> 1000] }

\* The catalogs drawn: product k has the title Titles[k].
InitCountDeals ==
    /\ NothingRuns
    /\ \E n \in 0..MaxProducts :
       \E vs \in [1..n -> UNION {[1..m -> CountedVariants] : m \in 0..MaxVariants}] :
        call = [fn |-> "collect_deals",
                args |-> [script |-> "shop",
                          products |-> [k \in 1..n |->
                                           [title |-> Titles[k], variants |-> vs[k]]]],
                returned |-> FALSE, result |-> <<>>]

SpecCountDeals == InitCountDeals /\ [][CollectDeals]_vars

(***************************************************************************)
(* C31.  The counts collect_deals returns agree with its deals:            *)
(* discounted_variants_count is the number of deals,                       *)
(* discounted_products_count the number of products with a deal in the     *)
(* list and at most the number of deals, and sale_now holds exactly when   *)
(* discounted_variants_count > 0.                                          *)
(***************************************************************************)
C31_CountsMatchDeals ==
    (call.fn = "collect_deals" /\ call.returned)
    => LET r == call.result
           contributed == {r.deals[i].title : i \in 1..Len(r.deals)}
       IN  /\ r.discounted_variants = Len(r.deals)
           /\ r.discounted_products = Cardinality(contributed)
           /\ r.discounted_products <= r.discounted_variants
           /\ r.sale_now <=> r.discounted_variants > 0

\* A catalog of two products, one of them with two deals, the other with
\* none.
C31_Witness ==
    /\ call.fn = "collect_deals" /\ call.returned
    /\ Len(call.args.products) = 2
    /\ call.result.discounted_products = 1
    /\ call.result.discounted_variants = 2
    /\ call.result.sale_now

\* The source names state.json holds as reported.
PersistedErrors(f) == IF f.kind = "dict" /\ "errors" \in f.keys THEN Range(f.errors) ELSE {}

(***************************************************************************)
(* C34.  tracker.py, over its invocations: the "not reachable" warning is  *)
(* delivered at most once per source name, a name that state.json holds in *)
(* errors stays in it, and a check whose fetch fails leaves the state as   *)
(* it was or with that source's name appended to errors.                   *)
(***************************************************************************)
C34_WarnedOnce ==
    [][ /\ \A n \in DOMAIN warned' : warned'[n] <= 1
        /\ PersistedErrors(file[TRACKER_STATE_FILE])
                \subseteq PersistedErrors(file'[TRACKER_STATE_FILE])
        /\ (bot = "tracker" /\ pc = "run" /\ poll'.fetch = "failed")
            => \E name \in {IF ti <= Len(targets) THEN targets[ti] ELSE ENJOY365} :
                  \/ tracker_state' = tracker_state
                  \/ tracker_state' = [tracker_state EXCEPT !.errors = Append(@, name)]
      ]_vars

(***************************************************************************)
(* budget_bot.py.  main loads state.json, asks Telegram for the updates    *)
(* from last_update_id + 1, handles them in turn and saves the state with  *)
(* the largest update_id seen.  An exception that leaves main ends the     *)
(* process before the save.  A line of expenses.jsonl is written here as   *)
(* the update_id of the update that made it.                               *)
(***************************************************************************)
\* The most updates Telegram gets to hold.
MaxUpdates == 3

STATE_PATH == "state.json"
EXPENSES_PATH == "expenses.jsonl"

\* The updates that can arrive with update_id uid: one without message,
\* one from another chat, and the messages of the configured chat.  The
\* text of a message: an expense without a currency, a text parse_input
\* rejects, or the /help command.
UpdatesWithId(uid) ==
    { [update_id |-> uid, message |-> FALSE, chat |-> "other", text |-> "expense"],
      [update_id |-> uid, message |-> TRUE, chat |-> "other", text |-> "expense"] }
    \cup [update_id : {uid}, message : {TRUE}, chat : {"own"},
          text : {"expense", "invalid", "help"}]

\* ensure_data_dir: the files are created when they are missing.
ensure_data_dir(f) ==
    [f EXCEPT
        ![EXPENSES_PATH] = IF @.kind = "missing" THEN [kind |-> "lines", lines |-> <<>>]
                           ELSE @,
        ![STATE_PATH] = IF @.kind = "missing"
                        THEN [kind |-> "dict", last_update_id |-> 0,
                              currency_default |-> FALSE]
                        ELSE @]

\* getUpdates with an offset: the updates whose update_id is at least offset.
tg_get_updates(offset) == SelectSeq(updates, LAMBDA upd : upd.update_id >= offset)

\* Faulty variant: the chat of the message is not looked at.
FromConfiguredChat_Anyone(upd) == upd.message

\* main, lines 478-485: the update has a message and it is from
\* TELEGRAM_CHAT_ID.
FromConfiguredChat(upd) == upd.message /\ upd.chat = "own"

\* main's loop over the updates.  acc: max_update_id, the hint flag of the
\* state in memory, the lines appended to expenses.jsonl, the messages
\* delivered (<<update_id, kind>>) and whether an exception left the loop.
RECURSIVE handle_updates(_, _, _)
handle_updates(upds, acc, outs) ==
    IF upds = <<>> THEN acc
    ELSE LET upd == Head(upds)
             uid == upd.update_id
             a == [acc EXCEPT !.max_update_id = IF @ >= uid THEN @ ELSE uid]
             out == outs[uid]
         IN  IF ~FromConfiguredChat(upd)
             THEN handle_updates(Tail(upds), a, outs)
             ELSE IF upd.text = "invalid"
             THEN \* parse_input raises; the except branch reports it
                  IF out = "ok"
                  THEN handle_updates(Tail(upds),
                            [a EXCEPT !.sent = Append(@, <<uid, "error">>)], outs)
                  ELSE [a EXCEPT !.raised = TRUE]
             ELSE LET b == IF upd.text = "expense"
                           THEN [a EXCEPT !.appended = Append(@, uid),
                                          !.currency_default = TRUE]
                           ELSE a
                  IN  IF out = "ok"
                      THEN handle_updates(Tail(upds),
                                [b EXCEPT !.sent = Append(@, <<uid, "reply">>)], outs)
                      ELSE IF out = "reply_raises"
                      THEN handle_updates(Tail(upds),
                                [b EXCEPT !.sent = Append(@, <<uid, "error">>)], outs)
                      ELSE [b EXCEPT !.raised = TRUE]

\* Telegram receives another update for the bot.
BudgetArrive ==
    /\ bot = "budget" /\ Len(updates) < MaxUpdates
    /\ \E upd \in UpdatesWithId(Len(updates) + 1) : updates' = Append(updates, upd)
    /\ UNCHANGED <<bot, targets, file, inv, pc>>
    /\ UNCHANGED proc
    /\ UNCHANGED history
    /\ UNCHANGED <<call, tracker_state, notified, alerted, warned>>

\* One invocation of main.  get: getUpdates answers, answers with ok false,
\* or raises.  outs: how the sends for an update end: all return, the reply
\* raises and the error message is delivered, or the error message raises
\* too.
BudgetMain ==
    /\ bot = "budget" /\ pc = "idle" /\ inv < MaxInvocations
    /\ inv' = inv + 1
    /\ \E get \in {"ok", "not_ok", "raise"} :
       \E f \in {ensure_data_dir(file)} :
       \E offset \in {f[STATE_PATH].last_update_id + 1} :
       \E got \in {IF get = "ok" THEN tg_get_updates(offset) ELSE <<>>} :
       \E outs \in [1..MaxUpdates -> {"ok", "reply_raises", "both_raise"}] :
         /\ \A i \in 1..MaxUpdates :
                outs[i] # "ok"
                => \E j \in 1..Len(got) :
                        /\ got[j].update_id = i /\ FromConfiguredChat(got[j])
                        /\ got[j].text = "invalid" => outs[i] = "both_raise"
         /\ \E r \in {handle_updates(got,
                    [max_update_id |-> f[STATE_PATH].last_update_id,
                     currency_default |-> f[STATE_PATH].currency_default,
                     appended |-> <<>>, sent |-> <<>>, raised |-> FALSE],
                    outs)} :
            /\ call' = [fn |-> "tg_get_updates", args |-> offset,
                        returned |-> get # "raise", result |-> got]
            /\ outbox' = r.sent
            /\ file' = [f EXCEPT
                    ![EXPENSES_PATH] = [@ EXCEPT !.lines = @ \o r.appended],
                    ![STATE_PATH] =
                        IF got = <<>> \/ r.raised THEN @
                        ELSE [@ EXCEPT !.last_update_id = r.max_update_id,
                                       !.currency_default = r.currency_default]]
    /\ UNCHANGED <<bot, targets, pc, DRY_RUN, ti, attempt, stdout, tries, poll>>
    /\ UNCHANGED history
    /\ UNCHANGED <<tracker_state, notified, alerted, warned, updates>>

InitBudget ==
    /\ bot = "budget"
    /\ targets = <<>>
    /\ file = [path \in {STATE_PATH, EXPENSES_PATH} |-> [kind |-> "missing"]]
    /\ inv = 0 /\ pc = "idle"
    /\ DRY_RUN = FALSE /\ ti = 1 /\ attempt = 0
    /\ stdout = <<>> /\ outbox = <<>> /\ tries = NoTries /\ poll = NoPoll
    /\ delivered = [t \in 1..2 |-> {}]
    /\ resent = FALSE
    /\ clean = [t \in 1..2 |-> FALSE]
    /\ hist = [t \in 1..2 |-> <<>>]
    /\ failStreak = [t \in 1..2 |-> FALSE]
    /\ owed = [t \in 1..2 |-> "no"]
    /\ call = NoCall
    /\ TrackerIdle

NextBudget ==
    \/ BudgetArrive
    \/ BudgetMain

SpecBudget == InitBudget /\ [][NextBudget]_vars

\* The lines of expenses.jsonl, and the persisted cursor (0 before the file
\* exists).
Ledger(f) == IF f[EXPENSES_PATH].kind = "lines" THEN f[EXPENSES_PATH].lines ELSE <<>>
Cursor(f) == IF f[STATE_PATH].kind = "dict" THEN f[STATE_PATH].last_update_id ELSE 0
HintShown(f) == f[STATE_PATH].kind = "dict" /\ f[STATE_PATH].currency_default

(***************************************************************************)
(* C32.  budget_bot over its invocations: the persisted last_update_id     *)
(* never decreases, an invocation asks for the updates from                *)
(* last_update_id + 1, and no update has more than one line in             *)
(* expenses.jsonl, also when a send raised.                                *)
(***************************************************************************)
C32_CursorAndOnce ==
    [][ /\ Cursor(file') >= Cursor(file)
        /\ inv' = inv + 1 => call'.args = Cursor(file) + 1
        /\ \A i, j \in 1..Len(Ledger(file')) :
                Ledger(file')[i] = Ledger(file')[j] => i = j ]_vars

\* The updates the bot is to ignore.
Foreign(upd) == (~upd.message) \/ upd.chat # "own"

(***************************************************************************)
(* C33.  budget_bot answers its own chat only: no line of expenses.jsonl   *)
(* and no message sent comes from an update without message or from        *)
(* another chat, and an invocation that got only such updates leaves the   *)
(* ledger and hints_shown as they were, sends nothing and moves            *)
(* last_update_id to the largest update_id it got.                         *)
(***************************************************************************)
C33_ChatIsolation ==
    [][ (bot = "budget" /\ inv' = inv + 1)
        => LET got == call'.result
               foreign == {got[i].update_id : i \in {j \in 1..Len(got) : Foreign(got[j])}}
               new == SubSeq(Ledger(file'), Len(Ledger(file)) + 1, Len(Ledger(file')))
           IN  /\ \A i \in 1..Len(new) : new[i] \notin foreign
               /\ \A i \in 1..Len(outbox') : outbox'[i][1] \notin foreign
               /\ (got # <<>> /\ \A i \in 1..Len(got) : Foreign(got[i]))
                    => /\ new = <<>>
                       /\ outbox' = <<>>
                       /\ HintShown(file') = HintShown(file)
                       /\ Cursor(file') = got[Len(got)].update_id ]_vars

\* An invocation got an expense from another chat and one from the
\* configured chat, and wrote one line, for the second.
C33_Witness ==
    /\ bot = "budget" /\ call.fn = "tg_get_updates"
    /\ Len(call.result) = 2
    /\ Foreign(call.result[1]) /\ call.result[1].message
    /\ ~Foreign(call.result[2]) /\ call.result[2].text = "expense"
    /\ Ledger(file) = <<call.result[2].update_id>>
    /\ Cursor(file) = call.result[2].update_id

====
